---- MODULE Spec2Model ----
(***************************************************************************)
(* A model of the move-mutation-tools orchestrators (run_mutation_test,    *)
(* run_spec_test), of the mutant generator they call (run_move_mutator)    *)
(* and of the Report they fill.                                            *)
(*                                                                         *)
(* Paths are pairs <<dir, file>>; a directory is a pair <<name, n>>.  File *)
(* contents are pairs as well: Original is the unmodified text of a        *)
(* project file, Text(c) the mutated text of candidate c, Absent means the *)
(* file does not exist.                                                    *)
(***************************************************************************)
EXTENDS Integers, Sequences, FiniteSets, TLC

\* Bounds of the model.
MaxMutants == 3
NumWorkers == 2

\* lib.rs:126 has CHUNK_SIZE = 64; the model scales the chunk to 2 mutants so
\* that runs with several chunks stay within MaxMutants.
CHUNK_SIZE == 2

Cands == 1..MaxMutants
Threads == 1..NumWorkers
Files == {"a.move", "b.move"}
Tools == {"mutation_test", "spec_test"}

Original == <<"original", 0>>
Absent == <<"absent", 0>>
Text(c) == <<"mutant", c>>

\* A mutant candidate's source file and qualified function (the AST is fixed:
\* candidates 1 and 3 share a key, candidate 2 lives in the other file, and
\* candidate 4 is a second function of the first file).
CandFile(c) == IF c = 2 THEN "b.move" ELSE "a.move"
CandModule(c) == IF c = 2 THEN "n" ELSE "m"
CandFunction(c) == IF c = 2 THEN "g" ELSE IF c = 4 THEN "h" ELSE "f"

(***************************************************************************)
(* Directories and paths                                                   *)
(***************************************************************************)
\* The canonical project (tmp_package_dir.rs: <outdir>/original_package).
package_path == <<"original_package", 0>>
\* A project location outside the canonical project, named by a report that
\* an earlier mutator run produced somewhere else (use_generated_mutants).
external_path == <<"external", 0>>
\* <outdir>/mutants/... : one directory per generated mutant file.
mutant_dir(c) == <<"mutants", c>>
mutant_path(c) == <<mutant_dir(c), CandFile(c)>>
\* The marker of a relative path.
Relative == <<".", 0>>

\* Shared-directory variant of job_outdir: the thread index is left out.
job_outdir_shared(t) == <<"job", 1>>
\* outdir.join(format!("mutation_test_{rayon_tid}")) / format!("prover_{id}")
job_outdir(t) == <<"job", t>>

JobDirs == {<<"job", t>> : t \in Threads}
\* run_spec_test's <outdir>/base.
outdir_original == <<"base", 0>>
Dirs == {package_path, external_path, outdir_original} \cup JobDirs
            \cup {mutant_dir(c) : c \in Cands}
Paths == Dirs \X Files

\* Path::join: an absolute right-hand side replaces the base.
Join(base, p) == IF p[1] = Relative THEN <<base, p[2]>> ELSE p

\* strip_path_prefix: cut everything up to and including "original_package/";
\* None stands for the Err the caller turns into a panic.
None == <<<<"none", 0>>, "">>
strip_path_prefix(p) == IF p[1][1] = "original_package" THEN <<Relative, p[2]>> ELSE None

\* elem.original_file_path().strip_prefix(&package_path).unwrap_or(full path)
strip_prefix_or_full(p) == IF p[1] = package_path THEN <<Relative, p[2]>> ELSE p

(***************************************************************************)
(* Filesystem operations                                                   *)
(***************************************************************************)
Range(seq) == {seq[k] : k \in 1..Len(seq)}

Existing(fsys, dir) == {f \in Files : fsys[<<dir, f>>] # Absent}

\* fs::remove_dir_all: on success nothing is left, on failure the files are
\* still there (a removal that fails half way leaves some of them, which the
\* copy that follows treats like all of them).  Both callers discard the result.
RemoveDirAllOutcomes(fsys, dir) ==
    { [p \in Paths |-> IF p[1] = dir THEN Absent ELSE fsys[p]], fsys }

\* fs_extra::dir::copy with CopyOptions::new().content_only(true): overwrite and
\* skip_exist are false, so an existing destination file is an error.
DirCopyMustFail(fsys, to) == Existing(fsys, to) # {}
DirCopy(fsys, from, to) ==
    [p \in Paths |-> IF p[1] = to THEN fsys[<<from, p[2]>>] ELSE fsys[p]]

\* move_mutator::compiler::copy_dir_all: recreates `to` as a full copy of `from`.
copy_dir_all(fsys, from, to) ==
    [p \in Paths |-> IF p[1] = to THEN fsys[<<from, p[2]>>] ELSE fsys[p]]

\* fs::copy(from, to): the destination file takes the source file's content.
FsCopy(fsys, from, to) == [fsys EXCEPT ![to] = fsys[from]]
FsCopyMustFail(fsys, from, to) == fsys[from] = Absent \/ to \notin Paths

(***************************************************************************)
(* Report (mutator-common/src/report.rs)                                   *)
(***************************************************************************)
MutantStatsNew(mf) ==
    [module_func |-> mf, tested |-> 0, killed |-> 0,
     mutants_alive_diffs |-> <<>>, mutants_killed_diff |-> <<>>]

ReportNew == <<>>

\* files.entry(path).or_insert(vec![MutantStats::new(module_func)])
EntryOrInsert(files, path, mf) ==
    IF path \in DOMAIN files THEN files ELSE files @@ (path :> <<MutantStatsNew(mf)>>)

\* Variant that never finds a record.
FindStatNever(entry, mf) == 0
\* entry.iter_mut().find(|s| s.module_func == module_func): the first match, 0 if none.
FindStat(entry, mf) ==
    IF \E k \in 1..Len(entry) : entry[k].module_func = mf
    THEN CHOOSE k \in 1..Len(entry) :
            /\ entry[k].module_func = mf
            /\ \A j \in 1..(k - 1) : entry[j].module_func # mf
    ELSE 0

increment_stat(files, path, mf, field) ==
    LET f1 == EntryOrInsert(files, path, mf)
        k == FindStat(f1[path], mf)
    IN IF k # 0
       THEN [f1 EXCEPT ![path][k][field] = @ + 1]
       ELSE [f1 EXCEPT ![path] = Append(@, [MutantStatsNew(mf) EXCEPT ![field] = 1])]

increment_mutants_tested(files, path, mf) == increment_stat(files, path, mf, "tested")
increment_mutants_killed(files, path, mf) == increment_stat(files, path, mf, "killed")

AddDiff(files, path, mf, field, diff) ==
    LET f1 == EntryOrInsert(files, path, mf)
        k == FindStat(f1[path], mf)
    IN IF k # 0
       THEN [f1 EXCEPT ![path][k][field] = Append(@, diff)]
       ELSE [f1 EXCEPT ![path] = Append(@, [MutantStatsNew(mf) EXCEPT ![field] = <<diff>>])]

add_mutants_alive_diff(files, path, mf, diff) ==
    AddDiff(files, path, mf, "mutants_alive_diffs", diff)
add_mutants_killed_diff(files, path, mf, diff) ==
    AddDiff(files, path, mf, "mutants_killed_diff", diff)

RECURSIVE SumSeq(_, _)
SumSeq(entry, field) ==
    IF entry = <<>> THEN 0 ELSE entry[1][field] + SumSeq(Tail(entry), field)

RECURSIVE SumOver(_, _, _)
SumOver(files, keys, field) ==
    IF keys = {} THEN 0
    ELSE LET p == CHOOSE q \in keys : TRUE
         IN SumSeq(files[p], field) + SumOver(files, keys \ {p}, field)

total_count(files, field) == SumOver(files, DOMAIN files, field)
mutants_tested(files) == total_count(files, "tested")
mutants_killed(files) == total_count(files, "killed")

\* Variant that adds a killed mutant's diff without counting the kill.
RecordMiniKillUncounted(files, mini) ==
    LET r1 == increment_mutants_tested(files, mini.original_file, mini.qname)
    IN IF mini.mutant_status = "Alive"
       THEN add_mutants_alive_diff(r1, mini.original_file, mini.qname, mini.diff)
       ELSE add_mutants_killed_diff(r1, mini.original_file, mini.qname, mini.diff)
\* The body of the loop over mini_reports (lib.rs:215-235 / 180-194).
RecordMini(files, mini) ==
    LET r1 == increment_mutants_tested(files, mini.original_file, mini.qname)
    IN IF mini.mutant_status = "Alive"
       THEN add_mutants_alive_diff(r1, mini.original_file, mini.qname, mini.diff)
       ELSE add_mutants_killed_diff(
                increment_mutants_killed(r1, mini.original_file, mini.qname),
                mini.original_file, mini.qname, mini.diff)

RECURSIVE PrepareReport(_, _)
PrepareReport(files, minis) ==
    IF minis = <<>> THEN files
    ELSE PrepareReport(RecordMini(files, Head(minis)), Tail(minis))

(***************************************************************************)
(* The mutant generator as the orchestrators use it (run_move_mutator,     *)
(* lib.rs:157-216): what happens to one generated mutant.                  *)
(***************************************************************************)
\* Variant of MutantFate that never consults verify_mutant.
MutantFateUnverified(v, comp, nopath, c) ==
    IF c \in nopath THEN "no_path" ELSE "written"
\* The closure of the parallel map: a mutant that fails verification is
\* skipped, one whose output path cannot be set up is skipped, every other
\* one is written and gets a report entry.
MutantFate(v, comp, nopath, c) ==
    IF v /\ ~comp[c] THEN "invalid"
    ELSE IF c \in nopath THEN "no_path"
    ELSE "written"

\* The entries of the mutator's report, in the order of the generated list
\* (collect() keeps the order of an indexed parallel iterator).
RECURSIVE MutationReports(_, _)
MutationReports(ft, c) ==
    IF c > MaxMutants THEN <<>>
    ELSE (IF ft[c] = "written" THEN <<c>> ELSE <<>>) \o MutationReports(ft, c + 1)

(***************************************************************************)
(* State                                                                   *)
(***************************************************************************)
VARIABLES
    tool,          \* which orchestrator runs
    phase,         \* the coordinator's position
    outcome,       \* "running", "Ok", an "Err_..." or "panic"
    baseline,      \* the oracle's verdict on the unmodified project
    verify,        \* project.verify_mutants of the mutator run behind the report
    compiles,      \* whether a candidate's mutated source compiles
    fate,          \* per candidate: "none", "invalid", "no_path", "written"
    mutants,       \* report.get_mutants(): candidate ids
    report_root,   \* directory of elem.original_file_path()
    merged,        \* number of mutants whose results the coordinator holds
    chunk_hi,      \* last index of the chunk in its parallel section
    pc,            \* per mutant index: the task's position
    tid,           \* per running task: its rayon thread index (0: not running)
    status,        \* per mutant index: "none", "Killed", "Alive"
    oracle_res,    \* per mutant index: "none", "ok", "fail"
    panicked,      \* a task of the current parallel section panicked
    mini_reports,  \* the coordinator's result list
    fs,            \* file contents
    test_report,   \* Report.files
    saved,         \* the Report artifact was written
    \* run_move_mutator
    m_pc,                 \* the mutator's position
    m_result,             \* "running", "Ok" or an "Err_..."
    apply_coverage,       \* project.apply_coverage
    artifact,             \* .coverage_map.mvcov: "present", "missing", "corrupt"
    all_uncovered_spans,  \* Coverage: function name -> uncovered spans
    mutate_called,        \* mutate::mutate has been invoked
    transformed_mutants,  \* the generated list (candidate ids)
    percentage,           \* downsampling_ratio_percentage (-1: None)
    operators,            \* mutation.operators of the configuration ({}: no filter)
    project_mode,         \* project.mode: "None", "Light", "Medium", "Heavy"
    project_operators,    \* project.operators: Option<Vec<String>>
    operator_mode,        \* Configuration.operator_mode
    config_error,         \* the message of the error Configuration::new returned
    \* mutate::mutate on one function of one module
    t_pc,              \* the traversal's position
    from_project,      \* the module's source file belongs to the project
    module_attrs,      \* module.get_attributes()
    fn_attrs,          \* function.get_attributes()
    function_name,     \* function.get_name_str()
    mutate_modules,    \* project.mutate_modules
    mutate_functions,  \* project.mutate_functions
    def,               \* function.get_def(): the body, or NoDef
    ev,                \* number of visitor calls made so far
    is_inside_spec,    \* the visitor's flag
    result,            \* the Vec<Mutant> being built
    \* MutationOperator::apply on one binary operation
    a_pc,       \* which operator of the node is applied next
    operation,  \* Operation of the call node
    exps,       \* the operands: kind ("var", "zero", "call") and span
    source,     \* the file's text, one character per element
    binary_out, \* Binary::apply's result
    swap_out,   \* BinarySwap::apply's result
    \* UncoveredSpans::new on one function's uncovered locations
    u_pc,                 \* "idle", "new", "done" or "panic"
    uncovered_locations,  \* func_src_cov.uncovered_locations: <<start, end>> spans
    file_contents,        \* the file's text, one character per element
    optimized_spans,      \* the spans UncoveredSpans holds
    \* calls on a Report
    calls                 \* the calls made on test_report so far

orchVars == <<tool, phase, outcome, baseline, report_root, merged, chunk_hi, pc,
              tid, status, oracle_res, panicked, mini_reports, test_report, saved>>
mvars == <<m_pc, m_result, apply_coverage, artifact, all_uncovered_spans,
           mutate_called, transformed_mutants, percentage, operators,
           project_mode, project_operators, operator_mode, config_error>>
gvars == <<t_pc, from_project, module_attrs, fn_attrs, function_name,
           mutate_modules, mutate_functions, def, ev, is_inside_spec, result,
           a_pc, operation, exps, source, binary_out, swap_out,
           u_pc, uncovered_locations, file_contents, optimized_spans, calls>>
vars == <<orchVars, verify, compiles, fate, mutants, fs, mvars, gvars>>

taskVars == <<pc, tid, status, oracle_res, panicked>>
coordVars == <<merged, chunk_hi, mini_reports, test_report, saved>>
inputVars == <<tool, baseline, verify, compiles, fate, mutants, report_root>>

Indices == 1..MaxMutants
N == Len(mutants)

\* No function body (a native function).
NoDef == [parent |-> <<>>, kind |-> <<>>]

\* The traversal and the operators are not running.
GeneratorIdle ==
    /\ t_pc = "idle"
    /\ from_project = TRUE
    /\ module_attrs = {}
    /\ fn_attrs = {}
    /\ function_name = "sum"
    /\ mutate_modules = [tag |-> "All", names |-> <<>>]
    /\ mutate_functions = [tag |-> "All", names |-> <<>>]
    /\ def = NoDef
    /\ ev = 0
    /\ is_inside_spec = FALSE
    /\ result = <<>>
    /\ a_pc = "idle"
    /\ operation = "Add"
    /\ exps = <<>>
    /\ source = <<>>
    /\ binary_out = <<>>
    /\ swap_out = <<>>

Init ==
    /\ GeneratorIdle
    /\ tool \in Tools
    /\ phase = "setup"
    /\ outcome = "running"
    /\ baseline = "none"
    /\ verify = FALSE
    /\ compiles = [c \in Cands |-> TRUE]
    /\ fate = [c \in Cands |-> "none"]
    /\ mutants = <<>>
    /\ report_root = package_path
    /\ merged = 0
    /\ chunk_hi = 0
    /\ pc = [i \in Indices |-> "queued"]
    /\ tid = [i \in Indices |-> 0]
    /\ status = [i \in Indices |-> "none"]
    /\ oracle_res = [i \in Indices |-> "none"]
    /\ panicked = FALSE
    /\ mini_reports = <<>>
    /\ fs = [p \in Paths |-> IF p[1] \in {package_path, external_path}
                              THEN Original ELSE Absent]
    /\ test_report = ReportNew
    /\ saved = FALSE
    /\ m_pc = "idle"
    /\ m_result = "running"
    /\ apply_coverage = FALSE
    /\ artifact = "missing"
    /\ all_uncovered_spans = <<>>
    /\ mutate_called = FALSE
    /\ transformed_mutants = <<>>
    /\ percentage = -1
    /\ operators = {}
    /\ project_mode = "None"
    /\ project_operators = [some |-> FALSE, names |-> <<>>]
    /\ operator_mode = [tag |-> "Heavy", ops |-> <<>>]
    /\ config_error = <<>>
    /\ u_pc = "idle"
    /\ uncovered_locations = <<>>
    /\ file_contents = <<>>
    /\ optimized_spans = <<>>
    /\ calls = <<>>

\* The run returns: nothing happens afterwards.
Return(res) == /\ outcome' = res
               /\ phase' = "end"

(***************************************************************************)
(* The coordinator before the test phase                                   *)
(***************************************************************************)
\* run_mutation_test: setup_outdir_and_package_path(..)?  (lib.rs:56-60)
\* run_spec_test: try_find_root(..)?, generate_prover_options(..)? (lib.rs:56-67)
Setup ==
    /\ phase = "setup"
    /\ \/ phase' = "baseline" /\ outcome' = outcome
       \/ Return("Err_setup")
    /\ UNCHANGED <<gvars, mvars, inputVars, taskVars, coordVars, fs>>

\* Variant of the gate that lets a failed baseline through.
BaselineGateOpen(res) == TRUE
\* run_tests_on_original_code(..)?  /  if let Err(e) = result { return Err(..) }
BaselineGate(res) == res = "passed"

\* The oracle runs on the unmodified project; only a success goes on.
Baseline ==
    /\ phase = "baseline"
    /\ \E res \in {"passed", "failed"} :
          /\ baseline' = res
          /\ IF BaselineGate(res)
             THEN phase' = "mutator" /\ outcome' = outcome
             ELSE Return("Err_baseline")
    /\ UNCHANGED <<gvars, mvars, tool, verify, compiles, fate, mutants, report_root,
                   taskVars, coordVars, fs>>

\* The inputs of a mutator run: verify_mutants, which mutated sources compile
\* (all of them, or all but candidate 2) and the mutants whose output path
\* cannot be set up (none, the first one, all of them).
CompilePatterns == {[c \in Cands |-> TRUE], [c \in Cands |-> c # 2]}
NoPathPatterns == {{}, {1}, Cands}

\* What a mutator run leaves behind: the mutant files and report.json.
MutatorOutput(v, comp, nopath) ==
    LET ft == [c \in Cands |-> MutantFate(v, comp, nopath, c)]
    IN /\ verify' = v
       /\ compiles' = comp
       /\ fate' = ft
       /\ mutants' = MutationReports(ft, 1)
       /\ fs' = [p \in Paths |->
                   IF \E c \in Cands : p = mutant_path(c) /\ ft[c] = "written"
                   THEN Text(CHOOSE c \in Cands : p = mutant_path(c))
                   ELSE fs[p]]

\* options.use_generated_mutants is set: the mutants of an earlier mutator run
\* are used, whose report may name files of another location.
UseGeneratedMutants ==
    /\ phase = "mutator"
    /\ \E v \in BOOLEAN, comp \in CompilePatterns, nopath \in NoPathPatterns :
          MutatorOutput(v, comp, nopath)
    /\ report_root' \in {package_path, external_path}
    /\ phase' = "load"
    /\ UNCHANGED <<gvars, mvars, tool, outcome, baseline, taskVars, coordVars>>

\* run_mutator(..)?: create_dir_all, then run_move_mutator on the canonical
\* project; any Err of it is returned.
RunMutator ==
    /\ phase = "mutator"
    /\ \/ /\ \E v \in BOOLEAN, comp \in CompilePatterns, nopath \in NoPathPatterns :
                MutatorOutput(v, comp, nopath)
          /\ phase' = "load"
          /\ outcome' = outcome
       \/ /\ Return("Err_mutator")
          /\ UNCHANGED <<verify, compiles, fate, mutants, fs>>
    /\ UNCHANGED <<gvars, mvars, tool, baseline, report_root, taskVars, coordVars>>

\* Report::load_from_json_file(..)?
LoadReport ==
    /\ phase = "load"
    /\ \/ /\ phase' = (IF tool = "spec_test" THEN "base" ELSE "test")
          /\ outcome' = outcome
       \/ Return("Err_load")
    /\ UNCHANGED <<gvars, mvars, inputVars, taskVars, coordVars, fs>>

\* run_spec_test: copy_dir_all(&package_path, &outdir_original)?
CopyBase ==
    /\ phase = "base"
    /\ \/ /\ fs' = copy_dir_all(fs, package_path, outdir_original)
          /\ phase' = "test"
          /\ outcome' = outcome
       \/ /\ Return("Err_copy")
          /\ fs' = fs
    /\ UNCHANGED <<gvars, mvars, inputVars, taskVars, coordVars>>

(***************************************************************************)
(* The test phase: one task per mutant of the chunk's parallel section     *)
(***************************************************************************)
Chunk == (merged + 1)..chunk_hi
InProgress == {i \in Indices : pc[i] \in {"remove", "copydir", "copyfile", "manifest", "oracle"}}
\* A rayon worker thread runs one closure at a time.
Busy == {tid[i] : i \in InProgress}

Elem(i) == mutants[i]
\* elem.original_file_path()
original_file_path(i) == <<report_root, CandFile(Elem(i))>>
\* The path of the mutated file relative to the package (lib.rs:144 / 122-125).
original_file(i) ==
    IF tool = "mutation_test" THEN strip_path_prefix(original_file_path(i))
    ELSE strip_prefix_or_full(original_file_path(i))
\* module name, "::", function name
QName(c) == <<CandModule(c), "::", CandFunction(c)>>

\* mutants.chunks(CHUNK_SIZE) in run_mutation_test; run_spec_test hands the
\* whole list to one parallel section.
ChunkEnd(tl, lo, n) ==
    IF tl = "mutation_test" THEN (IF lo + CHUNK_SIZE < n THEN lo + CHUNK_SIZE ELSE n)
    ELSE n

\* Variant of the classification with the two arms exchanged.
MutantStatusSwapped(r) == IF r = "fail" THEN "Alive" ELSE "Killed"
\* if let Err(e) = result { Killed } else { Alive }
MutantStatus(r) == IF r = "fail" THEN "Killed" ELSE "Alive"

\* The oracle's possible verdicts on a directory: a mutated file that does
\* not compile makes it fail, anything else may pass or fail.
OracleOutcomes(fsys, dir, comp) ==
    IF \E f \in Files, c \in Cands : fsys[<<dir, f>>] = Text(c) /\ ~comp[c]
    THEN {"fail"} ELSE {"ok", "fail"}

\* The closure unwinds: its locals are gone and the section is marked.
Panic(i) == /\ pc' = [pc EXCEPT ![i] = "panicked"]
            /\ tid' = [tid EXCEPT ![i] = 0]
            /\ panicked' = TRUE

StartChunk ==
    /\ phase = "test"
    /\ chunk_hi = merged
    /\ merged < N
    /\ chunk_hi' = ChunkEnd(tool, merged, N)
    /\ UNCHANGED <<gvars, mvars, inputVars, phase, outcome, taskVars, merged, mini_reports,
                   test_report, saved, fs>>

TaskStart(i, t) ==
    /\ phase = "test"
    /\ i \in Chunk
    /\ pc[i] = "queued"
    /\ t \notin Busy
    /\ IF original_file(i) = None
       THEN Panic(i)                      \* .expect("invalid package path")
       ELSE /\ pc' = [pc EXCEPT ![i] = "remove"]
            /\ tid' = [tid EXCEPT ![i] = t]
            /\ panicked' = panicked
    /\ UNCHANGED <<gvars, mvars, inputVars, phase, outcome, status, oracle_res,
                   coordVars, fs>>

\* let _ = fs::remove_dir_all(&job_outdir);
RemoveDir(i) ==
    /\ phase = "test"
    /\ pc[i] = "remove"
    /\ fs' \in RemoveDirAllOutcomes(fs, job_outdir(tid[i]))
    /\ pc' = [pc EXCEPT ![i] = "copydir"]
    /\ UNCHANGED <<gvars, mvars, inputVars, phase, outcome, tid, status, oracle_res,
                   panicked, coordVars>>

\* fs_extra::dir::copy(..).expect(..) / copy_dir_all(..).expect(..)
CopyDir(i) ==
    /\ phase = "test"
    /\ pc[i] = "copydir"
    /\ \/ /\ tool = "mutation_test" => ~DirCopyMustFail(fs, job_outdir(tid[i]))
          /\ fs' = IF tool = "mutation_test"
                   THEN DirCopy(fs, package_path, job_outdir(tid[i]))
                   ELSE copy_dir_all(fs, package_path, job_outdir(tid[i]))
          /\ pc' = [pc EXCEPT ![i] = "copyfile"]
          /\ UNCHANGED <<panicked, tid>>
       \/ /\ Panic(i)
          /\ fs' = fs
    /\ UNCHANGED <<gvars, mvars, inputVars, phase, outcome, status, oracle_res, coordVars>>

\* fs::copy(..).expect("copying file failed") in run_mutation_test,
\* let _ = fs::copy(..) in run_spec_test.
CopyFileFailurePanics(tl) == tl = "mutation_test"

\* fs::copy(mutant_file, job_outdir.join(&original_file))
CopyFile(i) ==
    LET from == mutant_path(Elem(i))
        to == Join(job_outdir(tid[i]), original_file(i))
        next == IF tool = "spec_test" THEN "manifest" ELSE "oracle"
    IN /\ phase = "test"
       /\ pc[i] = "copyfile"
       /\ \/ /\ ~FsCopyMustFail(fs, from, to)
             /\ fs' = FsCopy(fs, from, to)
             /\ pc' = [pc EXCEPT ![i] = next]
             /\ UNCHANGED <<panicked, tid>>
          \/ /\ fs' = fs
             /\ IF CopyFileFailurePanics(tool)
                THEN Panic(i)
                ELSE /\ pc' = [pc EXCEPT ![i] = next]
                     /\ UNCHANGED <<panicked, tid>>
       /\ UNCHANGED <<gvars, mvars, inputVars, phase, outcome, status, oracle_res, coordVars>>

\* run_spec_test: rewrite_manifest_for_mutant(..), panic!(..) on Err
RewriteManifest(i) ==
    /\ phase = "test"
    /\ pc[i] = "manifest"
    /\ \/ /\ pc' = [pc EXCEPT ![i] = "oracle"]
          /\ UNCHANGED <<panicked, tid>>
       \/ Panic(i)
    /\ UNCHANGED <<gvars, mvars, inputVars, phase, outcome, status, oracle_res,
                   coordVars, fs>>

\* run_tests_on_mutated_code(..) / prove(..) returns, and the task ends with
\* its (benchmark, MiniReport).
Oracle(i) ==
    /\ phase = "test"
    /\ pc[i] = "oracle"
    /\ \E r \in OracleOutcomes(fs, job_outdir(tid[i]), compiles) :
          /\ oracle_res' = [oracle_res EXCEPT ![i] = r]
          /\ status' = [status EXCEPT ![i] = MutantStatus(r)]
    /\ pc' = [pc EXCEPT ![i] = "finished"]
    /\ tid' = [tid EXCEPT ![i] = 0]
    /\ UNCHANGED <<gvars, mvars, inputVars, phase, outcome, panicked, coordVars, fs>>

MiniReport(i) ==
    [original_file |-> original_file(i), qname |-> QName(Elem(i)),
     mutant_status |-> status[i], diff |-> Elem(i)]

\* Variant of the collect that yields the chunk's results last to first.
CollectReversed(lo, hi) == [k \in 1..(hi - lo) |-> hi + 1 - k]
\* .collect::<Vec<(_, _)>>(): the results in the order of the input slice,
\* whatever the order the tasks finished in.
Collect(lo, hi) == [k \in 1..(hi - lo) |-> lo + k]

\* The parallel section ends without a panic: the coordinator appends the
\* chunk's results to its list.
JoinChunk ==
    /\ phase = "test"
    /\ chunk_hi > merged
    /\ ~panicked
    /\ \A i \in Chunk : pc[i] = "finished"
    /\ mini_reports' = mini_reports \o
          [k \in 1..(chunk_hi - merged) |->
              MiniReport(Collect(merged, chunk_hi)[k])]
    /\ merged' = chunk_hi
    /\ UNCHANGED <<gvars, mvars, inputVars, phase, outcome, taskVars, chunk_hi, test_report,
                   saved, fs>>

\* A task panicked: once no task is running the panic reaches the coordinator
\* and the run ends by unwinding.
JoinPanic ==
    /\ phase = "test"
    /\ panicked
    /\ Chunk \cap InProgress = {}
    /\ Return("panic")
    /\ UNCHANGED <<gvars, mvars, inputVars, taskVars, coordVars, fs>>

\* Every chunk is done.
FinishTest ==
    /\ phase = "test"
    /\ chunk_hi = merged
    /\ merged = N
    /\ phase' = "report"
    /\ UNCHANGED <<gvars, mvars, inputVars, outcome, taskVars, coordVars, fs>>

\* The loop over mini_reports.
BuildReport ==
    /\ phase = "report"
    /\ test_report' = PrepareReport(ReportNew, mini_reports)
    /\ phase' = "save"
    /\ UNCHANGED <<gvars, mvars, inputVars, outcome, taskVars, merged, chunk_hi, mini_reports,
                   saved, fs>>

\* Variant that returns the error of a write that had reached the file.
SaveReportPartial ==
    /\ phase = "save"
    /\ \/ /\ saved' = TRUE
          /\ Return("Ok")
       \/ /\ saved' = TRUE
          /\ Return("Err_save")
       \/ /\ saved' = FALSE
          /\ Return("Ok")
    /\ UNCHANGED <<gvars, mvars, inputVars, taskVars, merged, chunk_hi, mini_reports,
                   test_report, fs>>
\* if let Some(outfile) = &options.output { test_report.save_to_json_file(..)? }
SaveReport ==
    /\ phase = "save"
    /\ \/ /\ saved' = TRUE
          /\ Return("Ok")
       \/ /\ saved' = FALSE
          /\ Return("Err_save")
       \/ /\ saved' = FALSE          \* options.output is None
          /\ Return("Ok")
    /\ UNCHANGED <<gvars, mvars, inputVars, taskVars, merged, chunk_hi, mini_reports,
                   test_report, fs>>

Next ==
    \/ Setup
    \/ Baseline
    \/ UseGeneratedMutants
    \/ RunMutator
    \/ LoadReport
    \/ CopyBase
    \/ StartChunk
    \/ \E i \in Indices, t \in Threads : TaskStart(i, t)
    \/ \E i \in Indices : RemoveDir(i)
    \/ \E i \in Indices : CopyDir(i)
    \/ \E i \in Indices : CopyFile(i)
    \/ \E i \in Indices : RewriteManifest(i)
    \/ \E i \in Indices : Oracle(i)
    \/ JoinChunk
    \/ JoinPanic
    \/ FinishTest
    \/ BuildReport
    \/ SaveReport

Spec == Init /\ [][Next]_vars

(***************************************************************************)
(* run_move_mutator (move-mutator/src/lib.rs:55-229), step by step         *)
(***************************************************************************)
\* The fixed AST: a candidate's location (a span of its function's source)
\* and the operator that produced it.
CandSpan(c) ==
    IF c = 1 THEN <<0, 4>> ELSE IF c = 2 THEN <<2, 6>> ELSE IF c = 3 THEN <<5, 9>> ELSE <<1, 3>>
CandOperator(c) ==
    IF c = 2 THEN "delete_statement"
    ELSE IF c = 4 THEN "literal_replacement" ELSE "binary_operator_replacement"

\* The loop of Coverage::check_location over a function's uncovered spans.
RECURSIVE CheckSpans(_, _)
CheckSpans(spans, span) ==
    IF spans = <<>> THEN TRUE
    ELSE LET uncovered_span == Head(spans)
         IN IF span[1] >= uncovered_span[2] THEN CheckSpans(Tail(spans), span)
            ELSE IF uncovered_span[1] > span[1] THEN TRUE
            ELSE IF uncovered_span[2] < span[2] THEN TRUE
            ELSE FALSE
\* Variant that reports a function without an entry as not covered.
check_location_absent_uncovered(cov, fn, span) ==
    IF fn \notin DOMAIN cov THEN FALSE ELSE CheckSpans(cov[fn], span)
\* A function without an entry has full coverage.
check_location(cov, fn, span) ==
    IF fn \notin DOMAIN cov THEN TRUE ELSE CheckSpans(cov[fn], span)

\* What compute_coverage may find: nothing uncovered, the first span of m::f
\* uncovered, or both functions uncovered throughout.
CoverageMaps ==
    { [q \in {} |-> <<>>],
      [q \in {QName(1)} |-> << <<0, 4>> >>],
      [q \in {QName(1), QName(2)} |-> << <<0, 10>> >>] }

\* Variant of the artifact check that goes on without the coverage map.
CoverageLoadNeverFails(art) == FALSE
\* CoverageMap::from_binary_file(..).map_err(..)?
CoverageLoadFails(art) == art # "present"

\* The inputs of a mutator run.
Percentages == {-1, 0, 50, 100, 150}
OperatorFilters == {{}, {"binary_operator_replacement"}}

\* total.saturating_sub((total * percentage).div_ceil(100))
DivCeil(a, b) == (a + b - 1) \div b
SaturatingSub(a, b) == IF a >= b THEN a - b ELSE 0
\* Variant that rounds the number of removed mutants down.
no_of_mutants_to_keep_floor(total, pct) == SaturatingSub(total, (total * pct) \div 100)
no_of_mutants_to_keep(total, pct) == SaturatingSub(total, DivCeil(total * pct, 100))

\* choose_multiple(&mut rng, amount): amount distinct elements, in any order.
ChooseMultiple(seq, amount) ==
    { [j \in 1..amount |-> seq[f[j]]] :
        f \in { g \in [1..amount -> 1..Len(seq)] :
                  \A a, b \in 1..amount : g[a] = g[b] => a = b } }

\* The filter of the parallel pipeline: no configured operators select all.
OperatorSelected(ops, c) == ops = {} \/ CandOperator(c) \in ops

RECURSIVE SelectCovered(_, _)
SelectCovered(cov, c) ==
    IF c > MaxMutants THEN <<>>
    ELSE (IF check_location(cov, QName(c), CandSpan(c)) THEN <<c>> ELSE <<>>)
             \o SelectCovered(cov, c + 1)

RECURSIVE WrittenOf(_, _)
WrittenOf(seq, ft) ==
    IF seq = <<>> THEN <<>>
    ELSE (IF ft[Head(seq)] = "written" THEN <<Head(seq)>> ELSE <<>>) \o WrittenOf(Tail(seq), ft)

\* ---- operator_filter.rs, configuration.rs ----
\* Operator::all()
Operator_all ==
    <<"UnaryOperatorReplacement", "DeleteStatement", "BreakContinueReplacement",
      "BinaryOperatorReplacement", "IfElseReplacement", "LiteralReplacement",
      "BinaryOperatorSwap">>

\* Operator::as_str: the OPERATOR_NAME of the operator's module.
as_str(op) ==
    CASE op = "UnaryOperatorReplacement" -> "unary_operator_replacement"
      [] op = "DeleteStatement" -> "delete_statement"
      [] op = "BreakContinueReplacement" -> "break_continue_replacement"
      [] op = "BinaryOperatorReplacement" -> "binary_operator_replacement"
      [] op = "IfElseReplacement" -> "if_else_replacement"
      [] op = "LiteralReplacement" -> "literal_replacement"
      [] op = "BinaryOperatorSwap" -> "binary_operator_swap"

\* <Operator as FromStr>::from_str
Operator_from_str(s) ==
    CASE s = "unary_operator_replacement" -> [ok |-> TRUE, op |-> "UnaryOperatorReplacement"]
      [] s = "delete_statement" -> [ok |-> TRUE, op |-> "DeleteStatement"]
      [] s = "break_continue_replacement" -> [ok |-> TRUE, op |-> "BreakContinueReplacement"]
      [] s = "binary_operator_replacement" -> [ok |-> TRUE, op |-> "BinaryOperatorReplacement"]
      [] s = "if_else_replacement" -> [ok |-> TRUE, op |-> "IfElseReplacement"]
      [] s = "literal_replacement" -> [ok |-> TRUE, op |-> "LiteralReplacement"]
      [] s = "binary_operator_swap" -> [ok |-> TRUE, op |-> "BinaryOperatorSwap"]
      [] OTHER -> [ok |-> FALSE, op |-> "none"]

\* Variant whose Medium tier lacks an operator of Light.
operators_enum_medium_not_nested(mode) ==
    CASE mode.tag = "Light" ->
            <<"UnaryOperatorReplacement", "DeleteStatement", "BreakContinueReplacement">>
      [] mode.tag = "Medium" ->
            <<"UnaryOperatorReplacement", "DeleteStatement", "LiteralReplacement",
              "BinaryOperatorReplacement", "IfElseReplacement">>
      [] mode.tag = "Heavy" -> Operator_all
      [] OTHER -> mode.ops
\* OperatorMode::operators_enum, with light_operators, medium_operators and
\* heavy_operators.
operators_enum(mode) ==
    CASE mode.tag = "Light" ->
            <<"UnaryOperatorReplacement", "DeleteStatement", "BreakContinueReplacement">>
      [] mode.tag = "Medium" ->
            <<"UnaryOperatorReplacement", "DeleteStatement", "BreakContinueReplacement",
              "BinaryOperatorReplacement", "IfElseReplacement">>
      [] mode.tag = "Heavy" -> Operator_all
      [] OTHER -> mode.ops

\* OperatorMode::get_operators
get_operators(mode) ==
    [i \in 1..Len(operators_enum(mode)) |-> as_str(operators_enum(mode)[i])]

\* Variant that reports the first invalid name only.
validate_operators_first_invalid(names) ==
    LET invalid_ops == SelectSeq(names, LAMBDA op : ~Operator_from_str(op).ok)
        RECURSIVE lines(_)
        lines(i) ==
            IF i > Len(Operator_all) THEN <<>>
            ELSE <<"  - ", as_str(Operator_all[i])>>
                   \o (IF i < Len(Operator_all) THEN <<"\n">> ELSE <<>>) \o lines(i + 1)
    IN IF invalid_ops # <<>>
       THEN [ok |-> FALSE,
             message |-> <<"Invalid operator name(s): ", Head(invalid_ops),
                           ". Valid operators are: ">> \o lines(1)]
       ELSE [ok |-> TRUE, message |-> <<>>]
\* OperatorMode::validate_operators with list_all_operators; the message is
\* the sequence of the pieces format! and join put together.
validate_operators(names) ==
    LET invalid_ops == SelectSeq(names, LAMBDA op : ~Operator_from_str(op).ok)
        RECURSIVE join(_, _)
        join(items, sep) ==
            IF items = <<>> THEN <<>>
            ELSE IF Len(items) = 1 THEN items
            ELSE <<Head(items), sep>> \o join(Tail(items), sep)
        RECURSIVE lines(_)
        lines(i) ==
            IF i > Len(Operator_all) THEN <<>>
            ELSE <<"  - ", as_str(Operator_all[i])>>
                   \o (IF i < Len(Operator_all) THEN <<"\n">> ELSE <<>>) \o lines(i + 1)
    IN IF invalid_ops # <<>>
       THEN [ok |-> FALSE,
             message |-> <<"Invalid operator name(s): ">> \o join(invalid_ops, ", ")
                           \o <<". Valid operators are: ">> \o lines(1)]
       ELSE [ok |-> TRUE, message |-> <<>>]

\* OperatorMode::parse_operators
parse_operators(operator_names) ==
    LET v == validate_operators(operator_names)
    IN IF ~v.ok THEN [ok |-> FALSE, ops |-> <<>>, message |-> v.message]
       ELSE [ok |-> TRUE,
             ops |-> [i \in 1..Len(operator_names) |->
                        Operator_from_str(operator_names[i]).op],
             message |-> <<>>]

\* Variant in which a tier given together with a list wins.
parse_operator_mode_mode_wins(mode, ops) ==
    IF mode # "None"
    THEN [tag |-> "Ok", operator_mode |-> [tag |-> mode, ops |-> <<>>], message |-> <<>>]
    ELSE IF ops.some
    THEN LET parsed_ops == parse_operators(ops.names)
         IN IF parsed_ops.ok
            THEN [tag |-> "Ok", operator_mode |-> [tag |-> "Custom", ops |-> parsed_ops.ops],
                  message |-> <<>>]
            ELSE [tag |-> "Err", operator_mode |-> [tag |-> "Unset", ops |-> <<>>],
                  message |-> parsed_ops.message]
    ELSE [tag |-> "Ok", operator_mode |-> [tag |-> "Heavy", ops |-> <<>>], message |-> <<>>]
\* Configuration::parse_operator_mode: the match on (mode, operators);
\* OperatorMode::default() is Heavy, unreachable!(..) panics.
parse_operator_mode(mode, ops) ==
    LET Unset == [tag |-> "Unset", ops |-> <<>>]
    IN IF mode = "None" /\ ops.some
       THEN LET parsed_ops == parse_operators(ops.names)
            IN IF parsed_ops.ok
               THEN [tag |-> "Ok", operator_mode |-> [tag |-> "Custom", ops |-> parsed_ops.ops],
                     message |-> <<>>]
               ELSE [tag |-> "Err", operator_mode |-> Unset, message |-> parsed_ops.message]
       ELSE IF mode # "None" /\ ~ops.some
       THEN [tag |-> "Ok", operator_mode |-> [tag |-> mode, ops |-> <<>>], message |-> <<>>]
       ELSE IF mode = "None" /\ ~ops.some
       THEN [tag |-> "Ok", operator_mode |-> [tag |-> "Heavy", ops |-> <<>>], message |-> <<>>]
       ELSE [tag |-> "panic", operator_mode |-> Unset, message |-> <<>>]

MInit ==
    /\ GeneratorIdle
    /\ tool = "mutation_test"
    /\ phase = "mutator"
    /\ outcome = "running"
    /\ baseline = "passed"
    /\ verify \in BOOLEAN
    /\ compiles \in CompilePatterns
    /\ fate = [c \in Cands |-> "none"]
    /\ mutants = <<>>
    /\ report_root = package_path
    /\ merged = 0
    /\ chunk_hi = 0
    /\ pc = [i \in Indices |-> "queued"]
    /\ tid = [i \in Indices |-> 0]
    /\ status = [i \in Indices |-> "none"]
    /\ oracle_res = [i \in Indices |-> "none"]
    /\ panicked = FALSE
    /\ mini_reports = <<>>
    /\ fs = [p \in Paths |-> IF p[1] \in {package_path, external_path}
                              THEN Original ELSE Absent]
    /\ test_report = ReportNew
    /\ saved = FALSE
    /\ m_pc = "setup"
    /\ m_result = "running"
    /\ apply_coverage \in BOOLEAN
    /\ artifact \in {"present", "missing", "corrupt"}
    /\ all_uncovered_spans = [q \in {} |-> <<>>]
    /\ mutate_called = FALSE
    /\ transformed_mutants = <<>>
    /\ percentage \in Percentages
    /\ operators \in OperatorFilters
    /\ \/ /\ project_mode \in {"None", "Light"}
          /\ project_operators = [some |-> FALSE, names |-> <<>>]
       \/ /\ project_mode \in {"None", "Light"}
          /\ project_operators = [some |-> TRUE, names |-> <<"binary_operator_replacement">>]
    /\ operator_mode = [tag |-> "Unset", ops |-> <<>>]
    /\ config_error = <<>>
    /\ u_pc = "idle"
    /\ uncovered_locations = <<>>
    /\ file_contents = <<>>
    /\ optimized_spans = <<>>
    /\ calls = <<>>

MReturn(res) == /\ m_result' = res
                /\ m_pc' = "done"
mInputs == <<apply_coverage, artifact, percentage, operators, verify, compiles,
             project_mode, project_operators, operator_mode, config_error>>

\* package_path.canonicalize()?, setup_outdir_and_package_path(..)?
MSetup ==
    /\ m_pc = "setup"
    /\ \/ m_pc' = "config" /\ m_result' = m_result
       \/ MReturn("Err_setup")
    /\ UNCHANGED <<gvars, orchVars, mInputs, fate, mutants, fs, all_uncovered_spans,
                   mutate_called, transformed_mutants>>

\* Configuration::new(options, ..): parse_operator_mode and the struct.
ConfigurationNew ==
    /\ m_pc = "config"
    /\ LET r == parse_operator_mode(project_mode, project_operators)
       IN /\ operator_mode' = r.operator_mode
          /\ config_error' = r.message
          /\ IF r.tag = "Ok"
             THEN m_pc' = "ast" /\ m_result' = m_result
             ELSE MReturn(IF r.tag = "Err" THEN "Err_config" ELSE "panic")
    /\ UNCHANGED <<gvars, orchVars, apply_coverage, artifact, percentage, operators, verify,
                   compiles, project_mode, project_operators, fate, mutants, fs,
                   all_uncovered_spans, mutate_called, transformed_mutants>>

\* Configuration::from_file(..)? (its failure) or Configuration::new(..)
MConfig ==
    \/ /\ m_pc = "config"
       /\ MReturn("Err_config")
       /\ UNCHANGED <<gvars, orchVars, mInputs, fate, mutants, fs, all_uncovered_spans,
                      mutate_called, transformed_mutants>>
    \/ ConfigurationNew

\* generate_ast(..)?
MGenerateAst ==
    /\ m_pc = "ast"
    /\ \/ m_pc' = "coverage" /\ m_result' = m_result
       \/ MReturn("Err_ast")
    /\ UNCHANGED <<gvars, orchVars, mInputs, fate, mutants, fs, all_uncovered_spans,
                   mutate_called, transformed_mutants>>

\* if apply_coverage { coverage.compute_coverage(..)? }: the artifact is read
\* first; the compilation and the source checks that follow may fail too.
MComputeCoverage ==
    /\ m_pc = "coverage"
    /\ IF ~apply_coverage
       THEN /\ m_pc' = "mutate"
            /\ UNCHANGED <<m_result, all_uncovered_spans>>
       ELSE IF CoverageLoadFails(artifact)
       THEN /\ MReturn("Err_coverage")
            /\ UNCHANGED all_uncovered_spans
       ELSE \/ /\ all_uncovered_spans' \in CoverageMaps
               /\ m_pc' = "mutate"
               /\ m_result' = m_result
            \/ /\ MReturn("Err_coverage")
               /\ UNCHANGED all_uncovered_spans
    /\ UNCHANGED <<gvars, orchVars, mInputs, fate, mutants, fs, mutate_called,
                   transformed_mutants>>

\* mutate::mutate(&env, &mutator_configuration)?: the candidates whose location
\* check_location accepts, in AST order.
MMutate ==
    /\ m_pc = "mutate"
    /\ mutate_called' = TRUE
    /\ \/ /\ transformed_mutants' = SelectCovered(all_uncovered_spans, 1)
          /\ m_pc' = "output_dir"
          /\ m_result' = m_result
       \/ /\ MReturn("Err_mutate")
          /\ UNCHANGED transformed_mutants
    /\ UNCHANGED <<gvars, orchVars, mInputs, fate, mutants, fs, all_uncovered_spans>>

\* output::setup_output_dir(..)?
MSetupOutputDir ==
    /\ m_pc = "output_dir"
    /\ \/ m_pc' = "apply" /\ m_result' = m_result
       \/ MReturn("Err_output_dir")
    /\ UNCHANGED <<gvars, orchVars, mInputs, fate, mutants, fs, all_uncovered_spans,
                   mutate_called, transformed_mutants>>

\* The flat_map over the mutants: each is applied to its source;
\* canonicalize().expect(..) may panic.
MApply ==
    /\ m_pc = "apply"
    /\ \/ m_pc' = "downsample" /\ m_result' = m_result
       \/ MReturn("panic")
    /\ UNCHANGED <<gvars, orchVars, mInputs, fate, mutants, fs, all_uncovered_spans,
                   mutate_called, transformed_mutants>>

\* if let Some(percentage) = downsampling_ratio_percentage { .. }
MDownsample ==
    /\ m_pc = "downsample"
    /\ IF percentage = -1
       THEN /\ m_pc' = "emit"
            /\ UNCHANGED <<transformed_mutants, m_result>>
       ELSE LET total_mutants == Len(transformed_mutants)
                keep == no_of_mutants_to_keep(total_mutants, percentage)
            IN IF keep <= total_mutants
               THEN /\ transformed_mutants' \in ChooseMultiple(transformed_mutants, keep)
                    /\ m_pc' = "emit"
                    /\ m_result' = m_result
               ELSE \* assert!(no_of_mutants_to_keep <= total_mutants, ..)
                    /\ MReturn("panic")
                    /\ UNCHANGED transformed_mutants
    /\ UNCHANGED <<gvars, orchVars, mInputs, fate, mutants, fs, all_uncovered_spans,
                   mutate_called>>

\* One element of the parallel filter and map: the operator filter, then
\* verify_mutant, setup_mutant_path and fs::write(..).expect(..).
MEmit(c) ==
    /\ m_pc = "emit"
    /\ c \in Range(transformed_mutants)
    /\ fate[c] = "none"
    /\ IF ~OperatorSelected(operators, c)
       THEN /\ fate' = [fate EXCEPT ![c] = "filtered"]
            /\ UNCHANGED <<fs, m_pc, m_result>>
       ELSE \E nopath \in {{}, {c}} :
              LET f == MutantFate(verify, compiles, nopath, c)
              IN \/ /\ fate' = [fate EXCEPT ![c] = f]
                    /\ fs' = IF f = "written"
                             THEN [fs EXCEPT ![mutant_path(c)] = Text(c)] ELSE fs
                    /\ UNCHANGED <<m_pc, m_result>>
                 \/ /\ f = "written"
                    /\ MReturn("panic")
                    /\ UNCHANGED <<fate, fs>>
    /\ UNCHANGED <<gvars, orchVars, mInputs, mutants, all_uncovered_spans, mutate_called,
                   transformed_mutants>>

\* .flatten().collect() and the loop of report.add_entry: the entries of the
\* written mutants, in the order of the list.
MCollect ==
    /\ m_pc = "emit"
    /\ \A c \in Range(transformed_mutants) : fate[c] # "none"
    /\ mutants' = WrittenOf(transformed_mutants, fate)
    /\ m_pc' = "save"
    /\ UNCHANGED <<gvars, orchVars, mInputs, fate, fs, all_uncovered_spans, mutate_called,
                   transformed_mutants, m_result>>

\* report.save_to_json_file(..)?; report.save_to_text_file(..)?
MSave ==
    /\ m_pc = "save"
    /\ \/ MReturn("Ok")
       \/ MReturn("Err_save")
    /\ UNCHANGED <<gvars, orchVars, mInputs, fate, mutants, fs, all_uncovered_spans,
                   mutate_called, transformed_mutants>>

MNext ==
    \/ MSetup
    \/ MConfig
    \/ MGenerateAst
    \/ MComputeCoverage
    \/ MMutate
    \/ MSetupOutputDir
    \/ MApply
    \/ MDownsample
    \/ \E c \in Cands : MEmit(c)
    \/ MCollect
    \/ MSave

MutatorSpec == MInit /\ [][MNext]_vars

\* The downsampling step alone, for any percentage and a list of up to
\* MaxTotal generated mutants.
MaxTotal == 4
DInit ==
    /\ GeneratorIdle
    /\ tool = "mutation_test"
    /\ phase = "mutator"
    /\ outcome = "running"
    /\ baseline = "passed"
    /\ verify = FALSE
    /\ compiles = [c \in Cands |-> TRUE]
    /\ fate = [c \in Cands |-> "none"]
    /\ mutants = <<>>
    /\ report_root = package_path
    /\ merged = 0
    /\ chunk_hi = 0
    /\ pc = [i \in Indices |-> "queued"]
    /\ tid = [i \in Indices |-> 0]
    /\ status = [i \in Indices |-> "none"]
    /\ oracle_res = [i \in Indices |-> "none"]
    /\ panicked = FALSE
    /\ mini_reports = <<>>
    /\ fs = [p \in Paths |-> IF p[1] \in {package_path, external_path}
                              THEN Original ELSE Absent]
    /\ test_report = ReportNew
    /\ saved = FALSE
    /\ m_pc = "downsample"
    /\ m_result = "running"
    /\ apply_coverage = FALSE
    /\ artifact = "missing"
    /\ all_uncovered_spans = [q \in {} |-> <<>>]
    /\ mutate_called = TRUE
    /\ \E total \in 0..MaxTotal : transformed_mutants = [k \in 1..total |-> k]
    /\ percentage \in 0..100
    /\ operators = {}
    /\ project_mode = "None"
    /\ project_operators = [some |-> FALSE, names |-> <<>>]
    /\ operator_mode = [tag |-> "Heavy", ops |-> <<>>]
    /\ config_error = <<>>
    /\ u_pc = "idle"
    /\ uncovered_locations = <<>>
    /\ file_contents = <<>>
    /\ optimized_spans = <<>>
    /\ calls = <<>>

DownsampleSpec == DInit /\ [][MDownsample]_vars

\* Configuration::new alone, for every mode and operator lists of up to
\* MaxNames names, known or not.
MaxNames == 2
OperatorNames ==
    {as_str(Operator_all[i]) : i \in 1..Len(Operator_all)}
        \cup {"Binary_Operator_Swap", "invalid_op"}
CInit ==
    /\ GeneratorIdle
    /\ tool = "mutation_test"
    /\ phase = "mutator"
    /\ outcome = "running"
    /\ baseline = "passed"
    /\ verify = FALSE
    /\ compiles = [c \in Cands |-> TRUE]
    /\ fate = [c \in Cands |-> "none"]
    /\ mutants = <<>>
    /\ report_root = package_path
    /\ merged = 0
    /\ chunk_hi = 0
    /\ pc = [i \in Indices |-> "queued"]
    /\ tid = [i \in Indices |-> 0]
    /\ status = [i \in Indices |-> "none"]
    /\ oracle_res = [i \in Indices |-> "none"]
    /\ panicked = FALSE
    /\ mini_reports = <<>>
    /\ fs = [p \in Paths |-> IF p[1] \in {package_path, external_path}
                              THEN Original ELSE Absent]
    /\ test_report = ReportNew
    /\ saved = FALSE
    /\ m_pc = "config"
    /\ m_result = "running"
    /\ apply_coverage = FALSE
    /\ artifact = "missing"
    /\ all_uncovered_spans = [q \in {} |-> <<>>]
    /\ mutate_called = FALSE
    /\ transformed_mutants = <<>>
    /\ percentage = -1
    /\ operators = {}
    /\ project_mode \in {"None", "Light", "Medium", "Heavy"}
    /\ \/ project_operators = [some |-> FALSE, names |-> <<>>]
       \/ \E n \in 0..MaxNames : \E names \in [1..n -> OperatorNames] :
              project_operators = [some |-> TRUE, names |-> names]
    /\ operator_mode = [tag |-> "Unset", ops |-> <<>>]
    /\ config_error = <<>>
    /\ u_pc = "idle"
    /\ uncovered_locations = <<>>
    /\ file_contents = <<>>
    /\ optimized_spans = <<>>
    /\ calls = <<>>


ConfigSpec == CInit /\ [][ConfigurationNew]_vars

\* ---- coverage.rs: the uncovered spans of one function ----
\* merge_spans: the fold over windows(2) of the function's spans.
merge_spans(locations) ==
    LET merge(a, b) == <<IF a[1] <= b[1] THEN a[1] ELSE b[1],
                         IF a[2] >= b[2] THEN a[2] ELSE b[2]>>
    IN [k \in 1..(Len(locations) - 1) |->
          LET curr == locations[k]
              next == locations[k + 1]
          IN IF curr[2] >= next[1] THEN merge(curr, next) ELSE curr]

\* merge_spans_after_removing_whitespaces; spans.remove(0) panics on an
\* empty list.
merge_spans_after_removing_whitespaces(spans, source_code) ==
    LET merge(a, b) == <<IF a[1] <= b[1] THEN a[1] ELSE b[1],
                         IF a[2] >= b[2] THEN a[2] ELSE b[2]>>
        \* the walk over source_code[curr_end_index..].chars()
        RECURSIVE walk(_, _)
        walk(curr_end_index, span) ==
            IF curr_end_index >= Len(source_code) THEN FALSE
            ELSE IF source_code[curr_end_index + 1] # " " THEN FALSE
            ELSE IF curr_end_index + 1 = span[1] THEN TRUE
            ELSE walk(curr_end_index + 1, span)
        RECURSIVE span_loop(_, _, _)
        span_loop(curr, rest, new_spans) ==
            IF rest = <<>> THEN new_spans \o <<curr>>
            ELSE IF walk(curr[2], Head(rest))
            THEN span_loop(merge(curr, Head(rest)), Tail(rest), new_spans)
            ELSE span_loop(Head(rest), Tail(rest), new_spans \o <<curr>>)
    IN IF spans = <<>> THEN [panic |-> TRUE, spans |-> <<>>]
       ELSE [panic |-> FALSE, spans |-> span_loop(Head(spans), Tail(spans), <<>>)]

\* UncoveredSpans::new
UncoveredSpansNew ==
    /\ u_pc = "new"
    /\ LET merged_spans == merge_spans(uncovered_locations)
           r == merge_spans_after_removing_whitespaces(merged_spans, file_contents)
       IN /\ optimized_spans' = r.spans
          /\ u_pc' = IF r.panic THEN "panic" ELSE "done"
    /\ UNCHANGED <<orchVars, verify, compiles, fate, mutants, fs, mvars, t_pc, from_project,
                   module_attrs, fn_attrs, function_name, mutate_modules, mutate_functions,
                   def, ev, is_inside_spec, result, a_pc, operation, exps, source,
                   binary_out, swap_out, uncovered_locations, file_contents, calls>>

\* Up to MaxSpans spans, sorted by start, over a text of SrcLen characters.
MaxSpans == 3
SrcLen == 4
UInit ==
    /\ GeneratorIdle
    /\ tool = "mutation_test"
    /\ phase = "mutator"
    /\ outcome = "running"
    /\ baseline = "passed"
    /\ verify = FALSE
    /\ compiles = [c \in Cands |-> TRUE]
    /\ fate = [c \in Cands |-> "none"]
    /\ mutants = <<>>
    /\ report_root = package_path
    /\ merged = 0
    /\ chunk_hi = 0
    /\ pc = [i \in Indices |-> "queued"]
    /\ tid = [i \in Indices |-> 0]
    /\ status = [i \in Indices |-> "none"]
    /\ oracle_res = [i \in Indices |-> "none"]
    /\ panicked = FALSE
    /\ mini_reports = <<>>
    /\ fs = [p \in Paths |-> IF p[1] \in {package_path, external_path}
                              THEN Original ELSE Absent]
    /\ test_report = ReportNew
    /\ saved = FALSE
    /\ m_pc = "coverage"
    /\ m_result = "running"
    /\ apply_coverage = TRUE
    /\ artifact = "present"
    /\ all_uncovered_spans = [q \in {} |-> <<>>]
    /\ mutate_called = FALSE
    /\ transformed_mutants = <<>>
    /\ percentage = -1
    /\ operators = {}
    /\ project_mode = "None"
    /\ project_operators = [some |-> FALSE, names |-> <<>>]
    /\ operator_mode = [tag |-> "Heavy", ops |-> <<>>]
    /\ config_error = <<>>
    /\ u_pc = "new"
    /\ file_contents \in [1..SrcLen -> {" ", "a"}]
    /\ \E n \in 1..MaxSpans :
          uncovered_locations \in
              { l \in [1..n -> {<<a, b>> : a, b \in 0..SrcLen}] :
                  /\ \A k \in 1..n : l[k][1] < l[k][2]
                  /\ \A k \in 1..(n - 1) : l[k][1] <= l[k + 1][1] }
    /\ optimized_spans = <<>>
    /\ calls = <<>>



MergeSpec == UInit /\ [][UncoveredSpansNew]_vars

\* ---- report.rs: any sequence of up to MaxCalls calls on a new Report ----
MaxCalls == 3
RInit ==
    /\ GeneratorIdle
    /\ tool = "mutation_test"
    /\ phase = "report"
    /\ outcome = "running"
    /\ baseline = "passed"
    /\ verify = FALSE
    /\ compiles = [c \in Cands |-> TRUE]
    /\ fate = [c \in Cands |-> "none"]
    /\ mutants = <<>>
    /\ report_root = package_path
    /\ merged = 0
    /\ chunk_hi = 0
    /\ pc = [i \in Indices |-> "queued"]
    /\ tid = [i \in Indices |-> 0]
    /\ status = [i \in Indices |-> "none"]
    /\ oracle_res = [i \in Indices |-> "none"]
    /\ panicked = FALSE
    /\ mini_reports = <<>>
    /\ fs = [p \in Paths |-> IF p[1] \in {package_path, external_path}
                              THEN Original ELSE Absent]
    /\ test_report = ReportNew
    /\ saved = FALSE
    /\ m_pc = "done"
    /\ m_result = "Ok"
    /\ apply_coverage = TRUE
    /\ artifact = "present"
    /\ all_uncovered_spans = [q \in {} |-> <<>>]
    /\ mutate_called = FALSE
    /\ transformed_mutants = <<>>
    /\ percentage = -1
    /\ operators = {}
    /\ project_mode = "None"
    /\ project_operators = [some |-> FALSE, names |-> <<>>]
    /\ operator_mode = [tag |-> "Heavy", ops |-> <<>>]
    /\ config_error = <<>>
    /\ u_pc = "idle"
    /\ uncovered_locations = <<>>
    /\ file_contents = <<>>
    /\ optimized_spans = <<>>
    /\ calls = <<>>




\* Report::increment_mutants_tested
IncrementMutantsTested ==
    /\ Len(calls) < MaxCalls
    /\ \E path \in {"a.move", "b.move"}, module_func \in {"m::f", "m::g"} :
          /\ test_report' = increment_mutants_tested(test_report, path, module_func)
          /\ calls' = Append(calls, [op |-> "increment_mutants_tested", path |-> path,
                                     module_func |-> module_func, diff |-> ""])
    /\ UNCHANGED <<tool, phase, outcome, baseline, report_root, merged, chunk_hi, pc, tid,
                   status, oracle_res, panicked, mini_reports, saved, verify, compiles, fate,
                   mutants, fs, mvars, t_pc, from_project, module_attrs, fn_attrs,
                   function_name, mutate_modules, mutate_functions, def, ev, is_inside_spec,
                   result, a_pc, operation, exps, source, binary_out, swap_out, u_pc,
                   uncovered_locations, file_contents, optimized_spans>>

\* Report::increment_mutants_killed
IncrementMutantsKilled ==
    /\ Len(calls) < MaxCalls
    /\ \E path \in {"a.move", "b.move"}, module_func \in {"m::f", "m::g"} :
          /\ test_report' = increment_mutants_killed(test_report, path, module_func)
          /\ calls' = Append(calls, [op |-> "increment_mutants_killed", path |-> path,
                                     module_func |-> module_func, diff |-> ""])
    /\ UNCHANGED <<tool, phase, outcome, baseline, report_root, merged, chunk_hi, pc, tid,
                   status, oracle_res, panicked, mini_reports, saved, verify, compiles, fate,
                   mutants, fs, mvars, t_pc, from_project, module_attrs, fn_attrs,
                   function_name, mutate_modules, mutate_functions, def, ev, is_inside_spec,
                   result, a_pc, operation, exps, source, binary_out, swap_out, u_pc,
                   uncovered_locations, file_contents, optimized_spans>>

\* Report::add_mutants_alive_diff
AddMutantsAliveDiff ==
    /\ Len(calls) < MaxCalls
    /\ \E path \in {"a.move", "b.move"}, module_func \in {"m::f", "m::g"}, diff \in {"d1", "d2"} :
          /\ test_report' = add_mutants_alive_diff(test_report, path, module_func, diff)
          /\ calls' = Append(calls, [op |-> "add_mutants_alive_diff", path |-> path,
                                     module_func |-> module_func, diff |-> diff])
    /\ UNCHANGED <<tool, phase, outcome, baseline, report_root, merged, chunk_hi, pc, tid,
                   status, oracle_res, panicked, mini_reports, saved, verify, compiles, fate,
                   mutants, fs, mvars, t_pc, from_project, module_attrs, fn_attrs,
                   function_name, mutate_modules, mutate_functions, def, ev, is_inside_spec,
                   result, a_pc, operation, exps, source, binary_out, swap_out, u_pc,
                   uncovered_locations, file_contents, optimized_spans>>

\* Report::add_mutants_killed_diff
AddMutantsKilledDiff ==
    /\ Len(calls) < MaxCalls
    /\ \E path \in {"a.move", "b.move"}, module_func \in {"m::f", "m::g"}, diff \in {"d1", "d2"} :
          /\ test_report' = add_mutants_killed_diff(test_report, path, module_func, diff)
          /\ calls' = Append(calls, [op |-> "add_mutants_killed_diff", path |-> path,
                                     module_func |-> module_func, diff |-> diff])
    /\ UNCHANGED <<tool, phase, outcome, baseline, report_root, merged, chunk_hi, pc, tid,
                   status, oracle_res, panicked, mini_reports, saved, verify, compiles, fate,
                   mutants, fs, mvars, t_pc, from_project, module_attrs, fn_attrs,
                   function_name, mutate_modules, mutate_functions, def, ev, is_inside_spec,
                   result, a_pc, operation, exps, source, binary_out, swap_out, u_pc,
                   uncovered_locations, file_contents, optimized_spans>>

RNext ==
    \/ IncrementMutantsTested
    \/ IncrementMutantsKilled
    \/ AddMutantsAliveDiff
    \/ AddMutantsKilledDiff

ReportSpec == RInit /\ [][RNext]_vars

(***************************************************************************)
(* mutate::mutate (move-mutator/src/mutate.rs): one function of one module *)
(***************************************************************************)
MaxNodes == 5

\* The operations that get a Binary and a BinarySwap operator.
BinaryOps ==
    {"Add", "Sub", "Mul", "Div", "Mod", "And", "Or", "Eq", "Neq", "Ge", "Gt",
     "Le", "Lt", "BitAnd", "BitOr", "Shl", "Shr", "Xor"}
\* The node shapes parse_expression_and_find_mutants distinguishes: the
\* Operation of a Call (some of the `_ => vec![]` arm among them), or the
\* ExpData variant.
NodeKinds ==
    BinaryOps \cup
    {"MoveTo", "Abort", "Not", "MoveFunction", "Pack", "Tuple", "Select", "Exists",
     "BorrowGlobal", "Cast", "Closure", "Vector", "IfElse", "Value", "LoopCont",
     "Return", "Mutate", "Assign", "Block", "Invoke", "Lambda", "LocalVar", "Loop",
     "Temporary", "SpecBlock", "Sequence", "Quant", "Match", "Invalid"}

\* Variant that creates no swap operator.
parse_expression_and_find_mutants_no_swap(kind) ==
    IF kind \in {"MoveTo", "Abort"} THEN <<"DeleteStmt">>
    ELSE IF kind \in BinaryOps THEN <<"Binary">>
    ELSE IF kind = "Not" THEN <<"Unary">>
    ELSE IF kind = "IfElse" THEN <<"IfElse">>
    ELSE IF kind = "Value" THEN <<"Literal">>
    ELSE IF kind = "LoopCont" THEN <<"BreakContinue">>
    ELSE <<>>
\* The operators created for a node.
parse_expression_and_find_mutants(kind) ==
    IF kind \in {"MoveTo", "Abort"} THEN <<"DeleteStmt">>
    ELSE IF kind \in BinaryOps THEN <<"Binary", "BinarySwap">>
    ELSE IF kind = "Not" THEN <<"Unary">>
    ELSE IF kind = "IfElse" THEN <<"IfElse">>
    ELSE IF kind = "Value" THEN <<"Literal">>
    ELSE IF kind = "LoopCont" THEN <<"BreakContinue">>
    ELSE <<>>

\* A body is a tree: parent[i] is the parent of node i (0 for the root),
\* children are visited by increasing number.  ExpData::visit_pre_post calls
\* the visitor with (false, node) before the node's children and with
\* (true, node) after them; the result is the list of calls.
visit_pre_post(d) ==
    LET RECURSIVE VisitFrom(_, _)
        VisitNode(i) == << <<FALSE, i>> >> \o VisitFrom(i, i + 1) \o << <<TRUE, i>> >>
        VisitFrom(i, j) ==
            IF j > Len(d.parent) THEN <<>>
            ELSE (IF d.parent[j] = i THEN VisitNode(j) ELSE <<>>) \o VisitFrom(i, j + 1)
    IN IF d = NoDef THEN <<>> ELSE VisitNode(1)

\* get_node_loc: a node's text runs from the point the traversal enters it to
\* the point it leaves it.
NodeLoc(d, i) ==
    LET Pos(asc) == CHOOSE k \in 1..Len(visit_pre_post(d)) :
                        visit_pre_post(d)[k] = <<asc, i>>
    IN <<Pos(FALSE), Pos(TRUE)>>

\* The bodies: every tree of at most MaxNodes nodes whose spec blocks do not
\* contain spec blocks, the other nodes being blocks with literals, additions
\* with literals or blocks only; and one node of every shape under a block,
\* beside a literal.
Bodies ==
    LET ParentArrays(n) ==
            {p \in [1..n -> 0..(n - 1)] :
                p[1] = 0 /\ \A i \in 2..n : p[i] >= 1 /\ p[i] < i}
        RECURSIVE Anc(_, _)
        Anc(p, i) == IF p[i] = 0 THEN {} ELSE {p[i]} \cup Anc(p, p[i])
        SpecSets(p) == {s \in SUBSET (2..Len(p)) : \A i, j \in s : i \notin Anc(p, j)}
        Leaf(p, i) == \A j \in 1..Len(p) : p[j] # i
        Body(p, specs, kind) ==
            [parent |-> p,
             kind |-> [i \in 1..Len(p) |->
                         IF i \in specs THEN "SpecBlock"
                         ELSE IF kind = "Value" /\ ~Leaf(p, i) THEN "Block"
                         ELSE IF kind = "Add" /\ Leaf(p, i) THEN "Value"
                         ELSE kind]]
    IN UNION {{Body(p, s, k) : s \in SpecSets(p), k \in {"Block", "Add", "Value"}} :
                 p \in UNION {ParentArrays(n) : n \in 1..MaxNodes}}
       \cup {[parent |-> <<0, 1, 1>>, kind |-> <<"Block", k, "Value">>] : k \in NodeKinds}

\* FromStr for ModuleFilter and FunctionFilter: the argument is given by the
\* pieces s.split(&[';', '-', ',']) cuts it into.
from_str(pieces) ==
    IF pieces = <<"all">> THEN [tag |-> "All", names |-> <<>>]
    ELSE [tag |-> "Selected", names |-> pieces]
\* function.get_full_name_str()
FullName(fn) == <<CandModule(1), "::", fn>>

\* What compute_coverage may leave for the traversed function: no entry, or a
\* list of uncovered spans (merge_spans can leave overlapping spans).
TraverseCoverage ==
    {[q \in {} |-> <<>>]} \cup
    {[q \in {FullName("sum")} |-> l] :
        l \in { << <<1, 8>> >>, << <<2, 3>> >>, << <<4, 7>> >>, << <<2, 3>>, <<5, 6>> >>,
                << <<1, 3>>, <<2, 7>> >>, << <<5, 6>>, <<1, 8>> >>,
                << <<4, 4>>, <<5, 6>> >> }}

contains_attribute(attributes, target) == attributes \cap target # {}

\* The inputs: any body without coverage; the coverage index over the body
\* { a + b; !c } with c a literal; the attributes and filters over one body.
TraverseInputs ==
    \/ /\ from_project = TRUE
       /\ module_attrs = {}
       /\ fn_attrs = {}
       /\ function_name = "sum"
       /\ mutate_modules = from_str(<<"all">>)
       /\ mutate_functions = from_str(<<"all">>)
       /\ \/ /\ def \in Bodies
             /\ apply_coverage = FALSE
             /\ all_uncovered_spans = [q \in {} |-> <<>>]
          \/ /\ def = [parent |-> <<0, 1, 1, 3>>, kind |-> <<"Block", "Add", "Not", "Value">>]
             /\ apply_coverage = TRUE
             /\ all_uncovered_spans \in TraverseCoverage
    \/ /\ from_project \in BOOLEAN
       /\ module_attrs \in {{}, {"mutation::skip"}}
       /\ fn_attrs \in {{}, {"test"}, {"mutation::skip"}, {"view"}, {"test", "view"}}
       /\ function_name \in {"sum", "or", "and"}
       /\ mutate_modules \in
            {from_str(a) : a \in {<<"all">>, <<CandModule(1)>>, <<"n">>, <<"n", CandModule(1)>>}}
       /\ mutate_functions \in
            {from_str(a) : a \in {<<"all">>, <<"sum">>, <<"or", "sum">>, <<"and">>,
                                  <<"all", "sum">>, <<"">>}}
       /\ def \in {[parent |-> <<0, 1>>, kind |-> <<"Sequence", "Add">>], NoDef}
       /\ apply_coverage = FALSE
       /\ all_uncovered_spans = [q \in {} |-> <<>>]

TInit ==
    /\ tool = "mutation_test"
    /\ phase = "mutator"
    /\ outcome = "running"
    /\ baseline = "passed"
    /\ verify = FALSE
    /\ compiles = [c \in Cands |-> TRUE]
    /\ fate = [c \in Cands |-> "none"]
    /\ mutants = <<>>
    /\ report_root = package_path
    /\ merged = 0
    /\ chunk_hi = 0
    /\ pc = [i \in Indices |-> "queued"]
    /\ tid = [i \in Indices |-> 0]
    /\ status = [i \in Indices |-> "none"]
    /\ oracle_res = [i \in Indices |-> "none"]
    /\ panicked = FALSE
    /\ mini_reports = <<>>
    /\ fs = [p \in Paths |-> IF p[1] \in {package_path, external_path}
                              THEN Original ELSE Absent]
    /\ test_report = ReportNew
    /\ saved = FALSE
    /\ m_pc = "mutate"
    /\ m_result = "running"
    /\ artifact = "present"
    /\ mutate_called = TRUE
    /\ transformed_mutants = <<>>
    /\ percentage = -1
    /\ operators = {}
    /\ project_mode = "None"
    /\ project_operators = [some |-> FALSE, names |-> <<>>]
    /\ operator_mode = [tag |-> "Heavy", ops |-> <<>>]
    /\ config_error = <<>>
    /\ u_pc = "idle"
    /\ uncovered_locations = <<>>
    /\ file_contents = <<>>
    /\ optimized_spans = <<>>
    /\ calls = <<>>
    /\ t_pc = "module"
    /\ ev = 0
    /\ is_inside_spec = FALSE
    /\ result = <<>>
    /\ TraverseInputs
    /\ a_pc = "idle"
    /\ operation = "Add"
    /\ exps = <<>>
    /\ source = <<>>
    /\ binary_out = <<>>
    /\ swap_out = <<>>

tFrame == <<orchVars, verify, compiles, fate, mutants, fs, mvars, from_project,
            module_attrs, fn_attrs, function_name, mutate_modules, mutate_functions,
            def, a_pc, operation, exps, source, binary_out, swap_out,
            u_pc, uncovered_locations, file_contents, optimized_spans, calls>>

\* traverse_module_with_check, and the attribute check of traverse_module.
TraverseModule ==
    /\ t_pc = "module"
    /\ t_pc' = IF \/ ~from_project
                  \/ /\ mutate_modules.tag = "Selected"
                     /\ CandModule(1) \notin Range(mutate_modules.names)
                  \/ contains_attribute(module_attrs, {"mutation::skip"})
               THEN "done" ELSE "function"
    /\ UNCHANGED <<tFrame, ev, is_inside_spec, result>>

\* traverse_function up to the visit of the body.
TraverseFunction ==
    /\ t_pc = "function"
    /\ LET included_funcs == IF mutate_functions.tag = "Selected"
                             THEN mutate_functions.names ELSE <<>>
       IN t_pc' = IF \/ contains_attribute(fn_attrs, {"test", "mutation::skip"})
                     \/ /\ included_funcs # <<>>
                        /\ function_name \notin Range(included_funcs)
                  THEN "module_end" ELSE "visit"
    /\ UNCHANGED <<tFrame, ev, is_inside_spec, result>>

\* Variant whose flag covers the spec block node alone.
VisitFlagNotKept ==
    /\ t_pc = "visit"
    /\ ev < Len(visit_pre_post(def))
    /\ LET asc == visit_pre_post(def)[ev + 1][1]
           node == visit_pre_post(def)[ev + 1][2]
           inside == def.kind[node] = "SpecBlock" /\ ~asc
           found == parse_expression_and_find_mutants(def.kind[node])
       IN /\ is_inside_spec' = inside
          /\ result' =
               IF asc \/ inside THEN result
               ELSE result \o [k \in 1..Len(found) |->
                                 [operator |-> found[k], node |-> node,
                                  function_name |-> "", module_name |-> ""]]
    /\ ev' = ev + 1
    /\ UNCHANGED <<tFrame, t_pc>>
\* One call of the visitor closure.
Visit ==
    /\ t_pc = "visit"
    /\ ev < Len(visit_pre_post(def))
    /\ LET asc == visit_pre_post(def)[ev + 1][1]
           node == visit_pre_post(def)[ev + 1][2]
           inside == IF def.kind[node] = "SpecBlock" THEN ~asc ELSE is_inside_spec
           found == parse_expression_and_find_mutants(def.kind[node])
       IN /\ is_inside_spec' = inside
          /\ result' =
               IF asc \/ inside THEN result
               ELSE IF ~check_location(all_uncovered_spans, FullName(function_name),
                                       NodeLoc(def, node))
                    THEN result
               ELSE result \o [k \in 1..Len(found) |->
                                 [operator |-> found[k], node |-> node,
                                  function_name |-> "", module_name |-> ""]]
    /\ ev' = ev + 1
    /\ UNCHANGED <<tFrame, t_pc>>

\* Variant that names the module instead of the function.
set_function_name_as_module(m, fn) == [m EXCEPT !.function_name = CandModule(1)]
set_function_name(m, fn) == [m EXCEPT !.function_name = fn]
\* result.iter_mut().for_each(|m| m.set_function_name(..)); Ok(result)
FunctionEnd ==
    /\ t_pc = "visit"
    /\ ev = Len(visit_pre_post(def))
    /\ result' = [k \in 1..Len(result) |-> set_function_name(result[k], function_name)]
    /\ t_pc' = "module_end"
    /\ UNCHANGED <<tFrame, ev, is_inside_spec>>

\* mutants.iter_mut().for_each(|m| m.set_module_name(..)); Ok(mutants)
ModuleEnd ==
    /\ t_pc = "module_end"
    /\ result' = [k \in 1..Len(result) |->
                    [result[k] EXCEPT !.module_name = CandModule(1)]]
    /\ t_pc' = "done"
    /\ UNCHANGED <<tFrame, ev, is_inside_spec>>

TNext ==
    \/ TraverseModule
    \/ TraverseFunction
    \/ Visit
    \/ FunctionEnd
    \/ ModuleEnd

TraverseSpec == TInit /\ [][TNext]_vars

(***************************************************************************)
(* MutationOperator::apply of Binary and BinarySwap                        *)
(* (move-mutator/src/operators/binary.rs, binary_swap.rs)                  *)
(***************************************************************************)
MaxSpaces == 1

\* Operation::to_string_if_binop, one character per element.
to_string_if_binop(op) ==
    CASE op = "Add" -> <<"+">>       [] op = "Sub" -> <<"-">>
      [] op = "Mul" -> <<"*">>       [] op = "Div" -> <<"/">>
      [] op = "Mod" -> <<"%">>       [] op = "BitOr" -> <<"|">>
      [] op = "BitAnd" -> <<"&">>    [] op = "Xor" -> <<"^">>
      [] op = "Shl" -> <<"<", "<">>  [] op = "Shr" -> <<">", ">">>
      [] op = "Or" -> <<"|", "|">>   [] op = "And" -> <<"&", "&">>
      [] op = "Eq" -> <<"=", "=">>   [] op = "Neq" -> <<"!", "=">>
      [] op = "Lt" -> <<"<">>        [] op = "Gt" -> <<">">>
      [] op = "Le" -> <<"<", "=">>   [] op = "Ge" -> <<">", "=">>

\* &source[start..end] for byte offsets start <= end.
Slice(src, start, end) == SubSeq(src, start + 1, end)
\* mutated_source.replace_range(start..end, new)
replace_range(src, start, end, new) ==
    SubSeq(src, 1, start) \o new \o SubSeq(src, end + 1, Len(src))

\* The operator's position between the operands, whitespace omitted:
\* source[start..].find(..) and source[..end].rfind(..).
OperatorRange(src, left, right) ==
    LET after == {k \in left[2]..(Len(src) - 1) : src[k + 1] # " "}
        before == {k \in 0..(right[1] - 1) : src[k + 1] # " "}
        start == IF after = {} THEN left[2]
                 ELSE CHOOSE k \in after : \A j \in after : k <= j
        end == IF before = {} THEN right[1]
               ELSE (CHOOSE k \in before : \A j \in before : k >= j) + 1
    IN <<start, end>>

\* The group of exchangeable binary operators, in the order of the vec.
ExchangeableOps(op) ==
    IF op \in {"Add", "Sub", "Mul", "Div", "Mod"} THEN <<"Add", "Sub", "Mul", "Div", "Mod">>
    ELSE IF op \in {"BitOr", "BitAnd", "Xor"} THEN <<"BitOr", "BitAnd", "Xor">>
    ELSE IF op \in {"Shl", "Shr"} THEN <<"Shl", "Shr">>
    ELSE IF op \in {"Or", "And"} THEN <<"Or", "And">>
    ELSE IF op \in {"Eq", "Neq", "Lt", "Gt", "Le", "Ge"}
         THEN <<"Eq", "Neq", "Lt", "Gt", "Le", "Ge">>
    ELSE <<>>

\* target_operation.starts_with("+=") and the like.
\* Variant that never recognises a compound assignment.
check_compound_assignment_never(op, target_operation) == FALSE
check_compound_assignment(op, target_operation) ==
    /\ op \in {"Add", "Sub", "Mul", "Div", "Mod", "BitOr", "BitAnd", "Xor", "Shl", "Shr"}
    /\ Len(target_operation) >= Len(to_string_if_binop(op)) + 1
    /\ SubSeq(target_operation, 1, Len(to_string_if_binop(op)) + 1)
         = to_string_if_binop(op) \o <<"=">>

\* ExpData::Value(_, Value::Number(num)) with num zero.
contains_value_zero(exp) == exp.kind = "zero"

\* Variant without the location check and the zero-literal exclusions.
BinaryApplySynthesized(op, es, src) ==
    IF Len(es) # 2 THEN <<>>
    ELSE LET r == OperatorRange(src, es[1].loc, es[2].loc)
             group == ExchangeableOps(op)
             Keep(v) == v # op
             kept == SelectSeq(group, Keep)
         IN [k \in 1..Len(kept) |->
               [mutated_source |-> src, range |-> r,
                operator_name |-> "binary_operator_replacement",
                old_value |-> <<>>, new_value |-> to_string_if_binop(kept[k])]]
\* Binary::apply
BinaryApply(op, es, src) ==
    IF Len(es) # 2 THEN <<>>
    ELSE IF es[1].loc = es[2].loc THEN <<>>
    ELSE LET r == OperatorRange(src, es[1].loc, es[2].loc)
             cur_op == Slice(src, r[1], r[2])
             group == ExchangeableOps(op)
             is_compound_assignment == check_compound_assignment(op, cur_op)
             is_left_exp_zero == contains_value_zero(es[1])
             is_right_exp_zero == contains_value_zero(es[2])
             Keep(v) ==
                 /\ v # op
                 /\ ~(op = "Eq" /\ is_right_exp_zero /\ v = "Le")
                 /\ ~(op = "Eq" /\ is_left_exp_zero /\ v = "Ge")
                 /\ ~(op = "Neq" /\ is_right_exp_zero /\ v = "Gt")
                 /\ ~(op = "Neq" /\ is_left_exp_zero /\ v = "Lt")
                 /\ ~(op = "Gt" /\ is_right_exp_zero /\ v = "Neq")
                 /\ ~(op = "Lt" /\ is_left_exp_zero /\ v = "Neq")
             kept == SelectSeq(group, Keep)
             NewOp(v) == to_string_if_binop(v)
                            \o (IF is_compound_assignment THEN <<"=">> ELSE <<>>)
         IN [k \in 1..Len(kept) |->
               [mutated_source |-> replace_range(src, r[1], r[2], NewOp(kept[k])),
                range |-> r,
                operator_name |-> "binary_operator_replacement",
                old_value |-> cur_op,
                new_value |-> NewOp(kept[k])]]

\* Variant that never finds an operation commutative.
is_commutative_never(op, es) == FALSE
\* BinarySwap::is_commutative
is_commutative(op, es) ==
    IF op \in {"Add", "Mul", "Eq", "Neq", "BitOr", "BitAnd", "Or", "And", "Xor"}
    THEN ~\E k \in 1..Len(es) : es[k].kind = "call"
    ELSE TRUE

\* BinarySwap::apply: the mutants, or a panic when &source[start..end] is
\* taken with start > end.
BinarySwapApply(op, es, src) ==
    IF Len(es) # 2 THEN [panic |-> FALSE, mutants |-> <<>>]
    ELSE IF is_commutative(op, es) THEN [panic |-> FALSE, mutants |-> <<>>]
    ELSE LET left == es[1].loc
             right == es[2].loc
             r == OperatorRange(src, left, right)
         IN IF r[1] > r[2] THEN [panic |-> TRUE, mutants |-> <<>>]
            ELSE LET binop_str == Slice(src, r[1], r[2])
                     start == left[1]
                     end == right[2]
                     cur_op == Slice(src, start, end)
                     left_str == Slice(src, left[1], left[2])
                     right_str == Slice(src, right[1], right[2])
                     op_text == right_str \o <<" ">> \o binop_str \o <<" ">> \o left_str
                 IN [panic |-> FALSE,
                     mutants |->
                       << [mutated_source |-> replace_range(src, start, end, op_text),
                           range |-> <<start, end>>,
                           operator_name |-> "binary_operator_swap",
                           old_value |-> cur_op,
                           new_value |-> op_text] >>]

\* The inputs: `(<left><spaces><operator><spaces><right>)` for every binary
\* operation, operands that are a variable, a zero literal or a call, a
\* compound assignment where the operation has one, operand locations that
\* are those of the text or (a synthesized expression) both the same; and
\* an operator with one or with three operands.
ApplyInputs ==
    \E op \in BinaryOps, lk \in {"var", "zero", "call"}, rk \in {"var", "zero", "call"},
       wl \in 0..MaxSpaces, wr \in 0..MaxSpaces, compound \in BOOLEAN,
       synthesized \in BOOLEAN, n \in 1..3 :
        LET OperandText(kind, name) ==
                IF kind = "var" THEN <<name>>
                ELSE IF kind = "zero" THEN <<"0">> ELSE <<"f", "(", ")">>
            Spaces(w) == [k \in 1..w |-> " "]
            lt == OperandText(lk, "x")
            rt == OperandText(rk, "y")
            tok == to_string_if_binop(op) \o (IF compound THEN <<"=">> ELSE <<>>)
            lloc == <<1, 1 + Len(lt)>>
            rstart == 1 + Len(lt) + wl + Len(tok) + wr
            rloc == <<rstart, rstart + Len(rt)>>
            two == << [kind |-> lk, loc |-> lloc],
                      [kind |-> rk, loc |-> IF synthesized THEN lloc ELSE rloc] >>
        IN \* Move has a compound assignment for these operators only.
           /\ compound =>
                 /\ op \in {"Add", "Sub", "Mul", "Div", "Mod", "BitOr", "BitAnd", "Xor",
                            "Shl", "Shr"}
                 /\ lk = "var"
           /\ n # 2 => (lk = "var" /\ rk = "var" /\ wl = 0 /\ wr = 0 /\ ~compound /\ ~synthesized)
           /\ operation = op
           /\ source = <<"(">> \o lt \o Spaces(wl) \o tok \o Spaces(wr) \o rt \o <<")">>
           /\ exps = IF n = 2 THEN two
                     ELSE IF n = 1 THEN <<two[1]>>
                     ELSE two \o << [kind |-> "var", loc |-> rloc] >>

AInit ==
    /\ tool = "mutation_test"
    /\ phase = "mutator"
    /\ outcome = "running"
    /\ baseline = "passed"
    /\ verify = FALSE
    /\ compiles = [c \in Cands |-> TRUE]
    /\ fate = [c \in Cands |-> "none"]
    /\ mutants = <<>>
    /\ report_root = package_path
    /\ merged = 0
    /\ chunk_hi = 0
    /\ pc = [i \in Indices |-> "queued"]
    /\ tid = [i \in Indices |-> 0]
    /\ status = [i \in Indices |-> "none"]
    /\ oracle_res = [i \in Indices |-> "none"]
    /\ panicked = FALSE
    /\ mini_reports = <<>>
    /\ fs = [p \in Paths |-> IF p[1] \in {package_path, external_path}
                              THEN Original ELSE Absent]
    /\ test_report = ReportNew
    /\ saved = FALSE
    /\ m_pc = "apply"
    /\ m_result = "running"
    /\ apply_coverage = FALSE
    /\ artifact = "missing"
    /\ all_uncovered_spans = [q \in {} |-> <<>>]
    /\ mutate_called = TRUE
    /\ transformed_mutants = <<>>
    /\ percentage = -1
    /\ operators = {}
    /\ project_mode = "None"
    /\ project_operators = [some |-> FALSE, names |-> <<>>]
    /\ operator_mode = [tag |-> "Heavy", ops |-> <<>>]
    /\ config_error = <<>>
    /\ u_pc = "idle"
    /\ uncovered_locations = <<>>
    /\ file_contents = <<>>
    /\ optimized_spans = <<>>
    /\ calls = <<>>
    /\ t_pc = "done"
    /\ from_project = TRUE
    /\ module_attrs = {}
    /\ fn_attrs = {}
    /\ function_name = "sum"
    /\ mutate_modules = from_str(<<"all">>)
    /\ mutate_functions = from_str(<<"all">>)
    /\ def = NoDef
    /\ ev = 0
    /\ is_inside_spec = FALSE
    /\ result = <<>>
    /\ a_pc = "binary"
    /\ binary_out = <<>>
    /\ swap_out = <<>>
    /\ ApplyInputs

aFrame == <<orchVars, verify, compiles, fate, mutants, fs, mvars, t_pc, from_project,
            module_attrs, fn_attrs, function_name, mutate_modules, mutate_functions,
            def, ev, is_inside_spec, result, operation, exps, source,
            u_pc, uncovered_locations, file_contents, optimized_spans, calls>>

\* mutant.apply(original_source) for the Binary operator of the node.
ApplyBinary ==
    /\ a_pc = "binary"
    /\ binary_out' = BinaryApply(operation, exps, source)
    /\ a_pc' = "swap"
    /\ UNCHANGED <<aFrame, swap_out>>

\* mutant.apply(original_source) for the BinarySwap operator of the node.
ApplyBinarySwap ==
    /\ a_pc = "swap"
    /\ swap_out' = BinarySwapApply(operation, exps, source).mutants
    /\ a_pc' = IF BinarySwapApply(operation, exps, source).panic THEN "panic" ELSE "done"
    /\ UNCHANGED <<aFrame, binary_out>>

ANext ==
    \/ ApplyBinary
    \/ ApplyBinarySwap

ApplySpec == AInit /\ [][ANext]_vars

(***************************************************************************)
(* Properties                                                              *)
(***************************************************************************)
MutantTexts == {Text(c) : c \in Cands}
NothingDoneWithMutants ==
    /\ \A c \in Cands : fate[c] = "none"
    /\ mutants = <<>>
    /\ \A p \in Paths : fs[p] \notin MutantTexts
    /\ \A i \in Indices : pc[i] = "queued" /\ status[i] = "none" /\ oracle_res[i] = "none"
    /\ mini_reports = <<>>
    /\ test_report = ReportNew
    /\ ~saved

\* C1: no mutant is generated, copied or run unless the baseline run of the
\* oracle on the unmodified project has succeeded; when the baseline fails the
\* run ends with an error, no mutant was executed and the Report has no entry.
C1_BaselineFirst ==
    /\ baseline # "passed" => NothingDoneWithMutants
    /\ baseline = "failed" => phase = "end" /\ outcome = "Err_baseline"

C1_Witness == baseline = "failed" /\ phase = "end" /\ outcome = "Err_baseline"

\* C2: a mutant's status is Killed exactly when its oracle invocation failed
\* and Alive exactly when it succeeded; an oracle failure neither aborts the
\* run nor touches any other task, and a run that ends Ok has classified
\* every mutant of the list.
C2_StatusState ==
    /\ \A i \in Indices :
          /\ status[i] = "Killed" <=> oracle_res[i] = "fail"
          /\ status[i] = "Alive" <=> oracle_res[i] = "ok"
          /\ pc[i] = "panicked" => oracle_res[i] = "none"
    /\ outcome = "Ok" => \A i \in 1..N : status[i] # "none"
C2_OracleFailureStep ==
    \A i \in Indices :
        (oracle_res[i] = "none" /\ oracle_res'[i] = "fail") =>
            /\ status'[i] = "Killed"
            /\ panicked' = panicked /\ outcome' = outcome /\ phase' = phase
            /\ \A j \in Indices \ {i} : pc'[j] = pc[j] /\ status'[j] = status[j]
C2_StatusIffOracle == [](C2_StatusState) /\ [][C2_OracleFailureStep]_vars

C2_Witness ==
    /\ outcome = "Ok" /\ N >= 2
    /\ oracle_res[1] = "fail" /\ status[1] = "Killed"
    /\ oracle_res[2] = "ok" /\ status[2] = "Alive"

\* The part of the filesystem below one directory.
DirContent(fsys, dir) == [f \in Files |-> fsys[<<dir, f>>]]
\* Tasks that have deleted their worker directory and not yet left the oracle.
Holding == {i \in Indices : pc[i] \in {"copydir", "copyfile", "manifest", "oracle"}}

\* C3: no two in-progress tasks use the same worker directory: between a
\* task's deletion of its directory and the end of its oracle invocation no
\* step of another task changes anything in that directory.
C3_DistinctState ==
    \A i, j \in InProgress : i # j => job_outdir(tid[i]) # job_outdir(tid[j])
C3_NoForeignWrite ==
    \A j \in Holding :
        pc'[j] = pc[j] =>
            DirContent(fs', job_outdir(tid[j])) = DirContent(fs, job_outdir(tid[j]))
C4_FreshCopyAtOracle ==
    \A i \in Indices :
        pc[i] = "oracle" =>
            \A f \in Files :
                fs[<<job_outdir(tid[i]), f>>] =
                    (IF f = CandFile(Elem(i)) THEN Text(Elem(i)) ELSE Original)

\* C5: during the test phase every write of a task is confined to its own
\* worker directory: a step changes a file only if it is a step of a running
\* task and the file lies in that task's directory, so the canonical project
\* and the generated mutant files stay as they are.
C5_ConfinedStep ==
    phase = "test" =>
        \A p \in Paths :
            fs'[p] # fs[p] =>
                \E i \in InProgress : pc'[i] # pc[i] /\ p[1] = job_outdir(tid[i])
C5_WritesConfined == [][C5_ConfinedStep]_vars

\* C6: the mutants are processed in consecutive batches of at most CHUNK_SIZE:
\* no mutant beyond the current batch has started, every mutant of an
\* earlier batch has finished, and the coordinator's list holds exactly the
\* results of the completed batches.
C6_Batches ==
    /\ chunk_hi - merged <= CHUNK_SIZE
    /\ Len(mini_reports) = merged
    /\ \A i \in Indices :
          /\ pc[i] # "queued" => i <= chunk_hi
          /\ i <= merged => pc[i] = "finished"

Perms(n) == {f \in [1..n -> 1..n] : \A a, b \in 1..n : f[a] = f[b] => a = b}
\* The list of results in the order of the mutant list.
ReferenceMinis == [k \in 1..N |-> MiniReport(k)]
\* Per key: the counts and the diffs as sets.
KeyCounts(files) ==
    UNION { { <<p, files[p][k].module_func, files[p][k].tested, files[p][k].killed,
                Range(files[p][k].mutants_alive_diffs),
                Range(files[p][k].mutants_killed_diff)>> : k \in 1..Len(files[p]) }
            : p \in DOMAIN files }
ReportBuilt == phase = "save" \/ (phase = "end" /\ outcome \in {"Ok", "Err_save"})

\* C7 (as amended): the final Report is the one the sequential loop builds
\* from the results in mutant-list order, whatever the order the tasks
\* finished in and however the list was cut into consecutive batches; the
\* counts and the sets of diffs per key are the same for every order of the
\* results.
C7_ReportDeterministic ==
    ReportBuilt =>
        /\ mini_reports = ReferenceMinis
        /\ test_report = PrepareReport(ReportNew, ReferenceMinis)
        /\ mutants_tested(test_report) = N
        /\ \A perm \in Perms(N) :
              KeyCounts(PrepareReport(ReportNew, [k \in 1..N |-> mini_reports[perm[k]]]))
                  = KeyCounts(test_report)

C7_Witness ==
    /\ tool = "mutation_test" /\ outcome = "Ok" /\ N = MaxMutants
    /\ status[1] = "Alive" /\ status[2] = "Killed" /\ status[3] = "Alive"
    /\ mutants_killed(test_report) = 1

\* C7 (as stated): aggregation is commutative, the Report is the same for
\* every order in which the same results are merged.
C7_AnyOrderSameReport ==
    ReportBuilt =>
        \A perm \in Perms(N) :
            PrepareReport(ReportNew, [k \in 1..N |-> mini_reports[perm[k]]]) = test_report

\* C8: a task whose step of recreating the worker directory or of overwriting
\* the targeted file does not bring that about stops there (it is never run
\* by the oracle nor classified), and the run aborts instead of ending Ok.
C8_PrepStep ==
    \A i \in Indices :
        LET d == job_outdir(tid[i])
            failed == IF pc[i] = "copydir"
                      THEN DirContent(fs', d) # DirContent(fs', package_path)
                      ELSE fs'[Join(d, original_file(i))] # Text(Elem(i))
        IN (pc[i] \in {"copydir", "copyfile"} /\ pc'[i] # pc[i] /\ failed) =>
              /\ pc'[i] = "panicked"
              /\ status'[i] = "none"
              /\ panicked'
C8_AbortStep ==
    /\ C8_PrepStep
    /\ panicked' => outcome' \in {"running", "panic"}
    /\ \A i \in Indices : pc[i] = "panicked" => pc'[i] = "panicked" /\ status'[i] = "none"
C8_PrepFailureAborts == [][C8_AbortStep]_vars

\* C9: with verification enabled a mutant that does not compile is not
\* written, is not in the mutator's report and is never executed or counted;
\* with verification disabled it is written and listed like any other mutant,
\* and a run that ends Ok has executed it and counted it as tested.
C9_Verification ==
    \A c \in Cands :
        (fate[c] # "none" /\ ~compiles[c]) =>
            IF verify
            THEN /\ fate[c] = "invalid"
                 /\ \A p \in Paths : fs[p] # Text(c)
                 /\ c \notin Range(mutants)
                 /\ \A k \in 1..Len(mini_reports) : mini_reports[k].diff # c
                 /\ ReportBuilt => mutants_tested(test_report) < MaxMutants
            ELSE /\ fate[c] \in {"written", "no_path"}
                 /\ fate[c] = "written" =>
                       /\ fs[mutant_path(c)] = Text(c)
                       /\ c \in Range(mutants)
                       /\ outcome = "Ok" =>
                             /\ \E i \in 1..N : Elem(i) = c /\ oracle_res[i] # "none"
                             /\ \E k \in 1..Len(mini_reports) : mini_reports[k].diff = c
                             /\ mutants_tested(test_report) = N

C9_Witness ==
    /\ verify /\ ~compiles[2] /\ fate[2] = "invalid"
    /\ outcome = "Ok" /\ N = MaxMutants - 1 /\ mutants_tested(test_report) = N

\* C10: when coverage is requested and the coverage artifact is missing or
\* unreadable, run_move_mutator returns the error before mutate is invoked:
\* no mutant is generated, written or reported.
C10_CoverageArtifactFirst ==
    (apply_coverage /\ artifact # "present") =>
        /\ ~mutate_called
        /\ transformed_mutants = <<>>
        /\ \A c \in Cands : fate[c] = "none"
        /\ mutants = <<>>
        /\ \A p \in Paths : fs[p] \notin MutantTexts
        /\ m_pc \in {"setup", "config", "ast", "coverage", "done"}
        /\ m_pc = "done" =>
              \/ m_result \in {"Err_setup", "Err_config", "Err_ast", "Err_coverage"}
              \/ m_result = "panic" /\ operator_mode.tag = "Unset"  \* Configuration::new

C10_Witness ==
    /\ apply_coverage /\ artifact = "corrupt"
    /\ m_pc = "done" /\ m_result = "Err_coverage" /\ ~mutate_called


(***************************************************************************)
(* Properties of the traversal                                             *)
(***************************************************************************)
\* The visitor has been called for node n on descent.
Descended(n) == \E k \in 1..ev : visit_pre_post(def)[k] = <<FALSE, n>>
RECURSIVE Ancestors(_, _)
Ancestors(d, i) ==
    IF d.parent[i] = 0 THEN {} ELSE {d.parent[i]} \cup Ancestors(d, d.parent[i])
InsideSpec(n) ==
    \/ def.kind[n] = "SpecBlock"
    \/ \E a \in Ancestors(def, n) : def.kind[a] = "SpecBlock"
Nodes(d) == 1..Len(d.parent)
\* The operators of the candidates emitted for node n, in order.
OfNode(n, m) == m.node = n
CandidatesOf(n) ==
    LET ms == SelectSeq(result, LAMBDA m : OfNode(n, m))
    IN [k \in 1..Len(ms) |-> ms[k].operator]
Traversed == t_pc \in {"visit", "module_end", "done"}

\* The first span of the list that ends after the location's start (0: none).
FirstEndingAfter(spans, loc) ==
    IF \E k \in 1..Len(spans) : spans[k][2] > loc[1]
    THEN CHOOSE k \in 1..Len(spans) :
            /\ spans[k][2] > loc[1]
            /\ \A j \in 1..(k - 1) : spans[j][2] <= loc[1]
    ELSE 0
Contains(u, loc) == u[1] <= loc[1] /\ loc[2] <= u[2]
StrictOverlap(a, b) == a[1] < b[2] /\ b[1] < a[2]

\* C11 (as amended): with coverage filtering active the index holds the
\* uncovered spans of each function.  A candidate is emitted for a node only
\* if its function has no entry in the index or the first indexed span that
\* ends after the node's start does not contain the node's span; for a
\* function with no entry every location is reported as covered and every
\* mutable node outside a spec block gets its candidates.
C11_UncoveredSuppressed ==
    (apply_coverage /\ Traversed) =>
        \A n \in Nodes(def) :
            (Descended(n) /\ ~InsideSpec(n)) =>
                LET fn == FullName(function_name)
                    loc == NodeLoc(def, n)
                    mutable == parse_expression_and_find_mutants(def.kind[n]) # <<>>
                IN IF fn \notin DOMAIN all_uncovered_spans
                   THEN mutable => CandidatesOf(n) # <<>>
                   ELSE LET spans == all_uncovered_spans[fn]
                            k == FirstEndingAfter(spans, loc)
                        IN (mutable /\ ~(k # 0 /\ Contains(spans[k], loc)))
                               <=> CandidatesOf(n) # <<>>
\* A traversal with an entry for the function that suppressed one mutable
\* node and emitted candidates for another.
C11_Witness ==
    /\ apply_coverage
    /\ t_pc = "done"
    /\ FullName(function_name) \in DOMAIN all_uncovered_spans
    /\ \E n, o \in Nodes(def) :
          /\ CandidatesOf(n) = <<>>
          /\ parse_expression_and_find_mutants(def.kind[n]) # <<>>
          /\ CandidatesOf(o) # <<>>
\* C11 (as stated): with coverage filtering active a candidate is emitted
\* only for a node of a function that has an entry in the index and whose
\* span strictly overlaps an indexed span; a function with no entry gets no
\* mutant.
C11_OnlyIndexedOverlap ==
    apply_coverage =>
        \A k \in 1..Len(result) :
            LET fn == FullName(function_name)
            IN /\ fn \in DOMAIN all_uncovered_spans
               /\ \E u \in Range(all_uncovered_spans[fn]) :
                     StrictOverlap(NodeLoc(def, result[k].node), u)


\* C12: during the traversal of a body no candidate is emitted for a spec
\* block or for a node nested at any depth inside one; a node is considered
\* at most once, on descent (no operator twice for a node, none before the
\* descent reached it); and a mutable node outside spec blocks, visited
\* before or after a spec block, gets its candidates.
C12_SpecBlocksSkipped ==
    Traversed =>
        \A n \in Nodes(def) :
            /\ InsideSpec(n) => CandidatesOf(n) = <<>>
            /\ CandidatesOf(n) # <<>> => Descended(n)
            /\ \A j, k \in 1..Len(result) :
                  (result[j].node = n /\ result[k].node = n
                       /\ result[j].operator = result[k].operator) => j = k
            /\ (~apply_coverage /\ Descended(n) /\ ~InsideSpec(n)
                   /\ def.kind[n] \in {"Value", "Add"}) => CandidatesOf(n) # <<>>
\* A finished traversal of a body with a literal two levels deep inside a
\* spec block and a mutated node entered after the spec block was left.
C12_Witness ==
    /\ t_pc = "done"
    /\ \E s, g, a \in Nodes(def) :
          /\ def.kind[s] = "SpecBlock"
          /\ s \in Ancestors(def, g)
          /\ def.parent[g] # s
          /\ def.kind[g] = "Value"
          /\ CandidatesOf(g) = <<>>
          /\ NodeLoc(def, a)[1] > NodeLoc(def, s)[2]
          /\ CandidatesOf(a) # <<>>


\* C13: no mutant is produced for a function tagged test or mutation::skip,
\* of a module tagged mutation::skip, or not named in the configured
\* function allow-list; without an allow-list every other function of a
\* selected module is traversed in full; every produced mutant carries the
\* name of the function it was found in.
C13_FunctionSelection ==
    LET excluded ==
            \/ "test" \in fn_attrs
            \/ "mutation::skip" \in fn_attrs
            \/ "mutation::skip" \in module_attrs
            \/ /\ mutate_functions.tag = "Selected"
               /\ \A k \in 1..Len(mutate_functions.names) :
                     mutate_functions.names[k] # function_name
        selected_module ==
            /\ from_project
            /\ \/ mutate_modules.tag = "All"
               \/ \E k \in 1..Len(mutate_modules.names) :
                     mutate_modules.names[k] = CandModule(1)
    IN /\ excluded => result = <<>>
       /\ (t_pc = "done" /\ ~excluded /\ selected_module /\ mutate_functions.tag = "All") =>
             \A n \in Nodes(def) :
                 /\ Descended(n)
                 /\ (def.kind[n] = "Add" /\ ~InsideSpec(n) /\ ~apply_coverage) =>
                       Len(CandidatesOf(n)) = 2
       /\ t_pc = "done" =>
             \A k \in 1..Len(result) :
                 /\ result[k].function_name = function_name
                 /\ result[k].node \in Nodes(def)
\* A finished traversal, without an allow-list, of a function that carries
\* another attribute and lies in a module named by the module filter: its
\* mutants exist and are named after it.
C13_Witness ==
    /\ t_pc = "done"
    /\ mutate_functions.tag = "All"
    /\ mutate_modules.tag = "Selected"
    /\ fn_attrs = {"view"}
    /\ function_name = "or"
    /\ result # <<>>
    /\ result[1].function_name = "or"


\* The operator classes as the specification names them.
ArithmeticOps == {"Add", "Sub", "Mul", "Div", "Mod"}
BitwiseOps == {"BitOr", "BitAnd", "Xor"}
ShiftOps == {"Shl", "Shr"}
LogicalOps == {"Or", "And"}
RelationalOps == {"Eq", "Neq", "Lt", "Gt", "Le", "Ge"}
DispatchTable(kind) ==
    IF kind \in ArithmeticOps \cup BitwiseOps \cup ShiftOps \cup LogicalOps \cup RelationalOps
    THEN <<"Binary", "BinarySwap">>
    ELSE CASE kind = "Not" -> <<"Unary">>
           [] kind \in {"Abort", "MoveTo"} -> <<"DeleteStmt">>
           [] kind = "IfElse" -> <<"IfElse">>
           [] kind = "Value" -> <<"Literal">>
           [] kind = "LoopCont" -> <<"BreakContinue">>
           [] OTHER -> <<>>

\* C14: for every node the visitor considers (entered on descent, outside
\* spec blocks, not suppressed by coverage) the candidates emitted are
\* exactly those of the dispatch table, one of each.
C14_DispatchTable ==
    (Traversed /\ ~apply_coverage) =>
        \A n \in Nodes(def) :
            (Descended(n) /\ ~InsideSpec(n)) => CandidatesOf(n) = DispatchTable(def.kind[n])
\* A finished traversal that met a shift and a literal outside spec blocks.
C14_Witness ==
    /\ t_pc = "done"
    /\ ~apply_coverage
    /\ \E n, o \in Nodes(def) :
          /\ def.kind[n] = "Shl"
          /\ CandidatesOf(n) = <<"Binary", "BinarySwap">>
          /\ def.kind[o] = "Value"
          /\ CandidatesOf(o) = <<"Literal">>


(***************************************************************************)
(* Properties of the operators                                             *)
(***************************************************************************)
Applied == a_pc \in {"swap", "done", "panic"}
SwapApplied == a_pc \in {"done", "panic"}
ClassOf(op) ==
    CHOOSE c \in {ArithmeticOps, BitwiseOps, ShiftOps, LogicalOps, RelationalOps} : op \in c
\* The replacements excluded beside a zero literal.
ZeroSuppressed(op, left_zero, right_zero) ==
    {v \in RelationalOps :
        \/ op = "Eq" /\ v = "Le" /\ right_zero
        \/ op = "Eq" /\ v = "Ge" /\ left_zero
        \/ op = "Neq" /\ v = "Gt" /\ right_zero
        \/ op = "Neq" /\ v = "Lt" /\ left_zero
        \/ op = "Gt" /\ v = "Neq" /\ right_zero
        \/ op = "Lt" /\ v = "Neq" /\ left_zero}
ExpectedReplacements ==
    (ClassOf(operation) \ {operation})
        \ ZeroSuppressed(operation, exps[1].kind = "zero", exps[2].kind = "zero")
\* The written form of a replacement: the operator's token, followed by `=`
\* inside a compound assignment.
NotSpace(c) == c # " "
Written(v) ==
    to_string_if_binop(v) \o
    (IF /\ operation \in ArithmeticOps \cup BitwiseOps \cup ShiftOps
        /\ SelectSeq(SubSeq(source, exps[1].loc[2] + 1, exps[2].loc[1]), NotSpace)
             = to_string_if_binop(operation) \o <<"=">>
     THEN <<"=">> ELSE <<>>)
ReplacementsMatch ==
    /\ Len(binary_out) = Cardinality(ExpectedReplacements)
    /\ {binary_out[k].new_value : k \in 1..Len(binary_out)}
         = {Written(v) : v \in ExpectedReplacements}

\* C15 (as amended): for a Binary-Replacement candidate with two operands
\* whose locations are not identical, the replacement operators are exactly
\* the other members of the original operator's class minus the suppressed
\* zero-literal pairs, one mutant per remaining replacement.
C15_Replacements ==
    (Applied /\ Len(exps) = 2 /\ exps[1].loc # exps[2].loc) => ReplacementsMatch
\* `x+y` has been given to Binary::apply: four mutants, -, *, / and %.
C15_Witness ==
    /\ Applied
    /\ source = <<"(", "x", "+", "y", ")">>
    /\ Len(exps) = 2
    /\ exps[1].loc # exps[2].loc
    /\ [k \in 1..Len(binary_out) |-> binary_out[k].mutated_source]
         = << <<"(", "x", "-", "y", ")">>, <<"(", "x", "*", "y", ")">>,
              <<"(", "x", "/", "y", ")">>, <<"(", "x", "%", "y", ")">> >>
\* C15 (as stated): the same for every Binary-Replacement candidate with two
\* operands.
C15_EveryTwoOperandCandidate ==
    (Applied /\ Len(exps) = 2) => ReplacementsMatch

NonCommutativeOps == {"Sub", "Div", "Mod", "Shl", "Shr", "Lt", "Gt", "Le", "Ge"}
CommutativeOps == {"Add", "Mul", "Eq", "Neq", "BitOr", "BitAnd", "Or", "And", "Xor"}
OperandCalls == \E k \in 1..Len(exps) : exps[k].kind = "call"
OperandText(k) == SubSeq(source, exps[k].loc[1] + 1, exps[k].loc[2])

\* C16: a Binary-Swap candidate with exactly two operands whose spans are not
\* identical yields exactly one mutant when the operation is not commutative
\* or an operand contains a call; the mutant replaces the text from the left
\* operand's start to the right operand's end with
\* `<right operand> <operator token> <left operand>`.
C16_SwapEmitsOne ==
    (SwapApplied /\ Len(exps) = 2 /\ exps[1].loc # exps[2].loc
         /\ (operation \in NonCommutativeOps \/ OperandCalls)) =>
        /\ a_pc = "done"
        /\ Len(swap_out) = 1
        /\ swap_out[1].range = <<exps[1].loc[1], exps[2].loc[2]>>
        /\ \E tok \in {to_string_if_binop(operation),
                        to_string_if_binop(operation) \o <<"=">>} :
              /\ swap_out[1].new_value
                   = OperandText(2) \o <<" ">> \o tok \o <<" ">> \o OperandText(1)
              /\ swap_out[1].mutated_source
                   = SubSeq(source, 1, exps[1].loc[1]) \o swap_out[1].new_value
                       \o SubSeq(source, exps[2].loc[2] + 1, Len(source))

\* C17: a Binary-Swap candidate whose operation is commutative and whose
\* operands contain no call, closure or invocation yields no mutant.
C17_CommutativeNoSwap ==
    (SwapApplied /\ operation \in CommutativeOps /\ ~OperandCalls) =>
        (a_pc = "done" /\ swap_out = <<>>)
\* `x + y` went through both operators: four replacements, no swap.
C17_Witness ==
    /\ a_pc = "done"
    /\ operation = "Add"
    /\ source = <<"(", "x", " ", "+", " ", "y", ")">>
    /\ Len(exps) = 2
    /\ exps[1].loc # exps[2].loc
    /\ Len(binary_out) = 4
    /\ swap_out = <<>>

\* C18: a Binary-Swap candidate whose two operand spans are identical yields
\* no mutant, whatever the operation and the operands.
C18_SynthesizedNoSwap ==
    (SwapApplied /\ Len(exps) = 2 /\ exps[1].loc = exps[2].loc) =>
        (a_pc = "done" /\ swap_out = <<>>)


(***************************************************************************)
(* Properties of the downsampling                                          *)
(***************************************************************************)
\* ceil(a / b) for b > 0: the least k with k * b >= a.
Ceil(a, b) == CHOOSE k \in 0..a : k * b >= a /\ \A j \in 0..a : j * b >= a => k <= j
KeepCount(total, p) ==
    IF total - Ceil(total * p, 100) > 0 THEN total - Ceil(total * p, 100) ELSE 0

\* C19: downsampling N generated mutants with a percentage p in 0..100
\* retains exactly max(0, N - ceil(N*p/100)) of them, each a distinct member
\* of the generated list; p = 0 retains all and p = 100 none.
C19_DownsampleStep ==
    (m_pc = "downsample" /\ percentage \in 0..100) =>
        LET total == Len(transformed_mutants)
            kept == transformed_mutants'
        IN /\ Len(kept) = KeepCount(total, percentage)
           /\ \A j, k \in 1..Len(kept) : kept[j] = kept[k] => j = k
           /\ \A k \in 1..Len(kept) : \E j \in 1..total : kept[k] = transformed_mutants[j]
           /\ percentage = 0 => Len(kept) = total
           /\ percentage = 100 => Len(kept) = 0
C19_DownsampleKeeps == [][C19_DownsampleStep]_vars
\* Three mutants were downsampled by 34 percent: two removed, the third kept.
C19_Witness ==
    /\ m_pc = "emit"
    /\ percentage = 34
    /\ transformed_mutants = <<3>>

\* C20: downsampling comes after the operator filter and before the
\* verification: when the sample is taken the list holds only mutants of the
\* active operators, and the number of mutants that enter verification is
\* max(0, M - ceil(M*p/100)), M being the number of generated mutants that
\* pass the operator filter.
C20_DownsampleAfterFilter ==
    LET generated == SelectCovered(all_uncovered_spans, 1)
        Active(c) == operators = {} \/ CandOperator(c) \in operators
        passing == {k \in 1..Len(generated) : Active(generated[k])}
        entered == {c \in Cands : fate[c] \in {"invalid", "no_path", "written"}}
    IN /\ (m_pc = "downsample" /\ percentage # -1) =>
             \A k \in 1..Len(transformed_mutants) : Active(transformed_mutants[k])
       /\ (m_pc = "save" /\ percentage # -1) =>
             Cardinality(entered) = KeepCount(Cardinality(passing), percentage)


\* ---- Downsampling percentage outside 0..=100 ----
OutOfRange(pct) == pct > 100

\* C21: a downsampling percentage outside 0..=100 is rejected: the run does
\* not return Ok, and no mutant is generated (mutate is never called).
C21_OutOfRangeRejected ==
    OutOfRange(percentage) => (m_result # "Ok" /\ ~mutate_called)


\* ---- Operator modes ----
\* The names of the operators the configured mode enables.
ActiveSet == Range(get_operators(operator_mode))
Handled(c) == fate[c] \in {"invalid", "no_path", "written"}

\* C22: every mutant that is verified, written or reported has an operator
\* name of the active operator set (the configured tier or custom list).
C22_OnlyActiveOperators ==
    \A c \in Cands :
        (Handled(c) \/ c \in Range(mutants)) => CandOperator(c) \in ActiveSet


\* The 7 known operator names.
KnownNames ==
    {"unary_operator_replacement", "delete_statement", "break_continue_replacement",
     "binary_operator_replacement", "if_else_replacement", "literal_replacement",
     "binary_operator_swap"}
Configured == m_pc = "ast" /\ m_result = "running"
NamesOfTier(tier) == get_operators([tag |-> tier, ops |-> <<>>])
ExactlyN(seq, n) == Len(seq) = n /\ Cardinality(Range(seq)) = n

\* C23: the tiers are nested, Light has exactly 3 operators, Medium exactly
\* 5, Heavy is exactly the 7 known operators, and a configuration with
\* neither a tier nor a list has mode Heavy.
C23_Tiers ==
    Configured =>
        /\ operator_mode.tag = "Light" =>
              /\ ExactlyN(get_operators(operator_mode), 3)
              /\ ActiveSet \subseteq Range(NamesOfTier("Medium"))
        /\ operator_mode.tag = "Medium" =>
              /\ ExactlyN(get_operators(operator_mode), 5)
              /\ ActiveSet \subseteq Range(NamesOfTier("Heavy"))
        /\ operator_mode.tag = "Heavy" =>
              /\ ExactlyN(get_operators(operator_mode), 7)
              /\ ActiveSet = KnownNames
        /\ (project_mode = "None" /\ ~project_operators.some) => operator_mode.tag = "Heavy"
        /\ project_mode # "None" => operator_mode.tag = project_mode
C23_Witness == Configured /\ project_mode = "Light" /\ operator_mode.tag = "Light"

\* The list handed to parse_operators and its unknown entries, in order.
ListGiven == project_mode = "None" /\ project_operators.some
Unknown(name) == name \notin KnownNames
UnknownEntries == SelectSeq(project_operators.names, Unknown)
\* The names a message lists before and after ". Valid operators are: ".
NamedInvalid(message) ==
    LET k == CHOOSE i \in 1..Len(message) : message[i] = ". Valid operators are: "
    IN SelectSeq(SubSeq(message, 2, k - 1), LAMBDA piece : piece # ", ")
NamedValid(message) ==
    LET k == CHOOSE i \in 1..Len(message) : message[i] = ". Valid operators are: "
    IN Range(SubSeq(message, k + 1, Len(message))) \ {"  - ", "\n"}

\* C24: a list of names is accepted iff every name is one of the 7 known
\* names; a rejected list gives one error that names every unknown entry and
\* lists the 7 valid names; an accepted list gives the corresponding
\* operators in the same order and number.
C24_ValidateOperators ==
    (ListGiven /\ m_pc # "config") =>
        /\ Configured <=> UnknownEntries = <<>>
        /\ Configured =>
              /\ config_error = <<>>
              /\ operator_mode.tag = "Custom"
              /\ Len(operator_mode.ops) = Len(project_operators.names)
              /\ \A i \in 1..Len(operator_mode.ops) :
                    /\ operator_mode.ops[i] \in Range(Operator_all)
                    /\ as_str(operator_mode.ops[i]) = project_operators.names[i]
        /\ ~Configured =>
              /\ m_result = "Err_config"
              /\ operator_mode.tag = "Unset"
              /\ \E k \in 1..Len(config_error) : config_error[k] = ". Valid operators are: "
              /\ NamedInvalid(config_error) = UnknownEntries
              /\ NamedValid(config_error) = KnownNames
C24_Witness ==
    /\ ListGiven /\ m_result = "Err_config"
    /\ Len(UnknownEntries) = 2
    /\ UnknownEntries[1] # UnknownEntries[2]

BothGiven == project_mode # "None" /\ project_operators.some
NothingGenerated ==
    /\ ~mutate_called
    /\ transformed_mutants = <<>>
    /\ mutants = <<>>
    /\ \A c \in Cands : fate[c] = "none"

CompoundTokens ==
    { <<"+", "=">>, <<"-", "=">>, <<"*", "=">>, <<"/", "=">>, <<"%", "=">>,
      <<"|", "=">>, <<"&", "=">>, <<"^", "=">>, <<"<", "<", "=">>, <<">", ">", "=">> }
\* The text between the two operands, without whitespace.
TokenBetween ==
    SelectSeq(SubSeq(source, exps[1].loc[2] + 1, exps[2].loc[1]), NotSpace)
\* The replacement is the token of another operator of the class, followed
\* by the given suffix, and the mutated source holds it at the range.
RenderedAs(mutant, suffix) ==
    /\ \E v \in ClassOf(operation) \ {operation} :
          mutant.new_value = to_string_if_binop(v) \o suffix
    /\ SubSeq(mutant.mutated_source, mutant.range[1] + 1,
              mutant.range[1] + Len(mutant.new_value)) = mutant.new_value
    /\ Len(mutant.mutated_source)
         = Len(source) - Len(mutant.old_value) + Len(mutant.new_value)

\* C28: when the token between the two operands is a compound assignment,
\* every replacement is the new base operator followed by `=`; otherwise no
\* replacement has `=` appended to the new operator.
C28_CompoundAssignment ==
    (Applied /\ Len(exps) = 2 /\ exps[1].loc # exps[2].loc) =>
        \A k \in 1..Len(binary_out) :
            RenderedAs(binary_out[k],
                       IF TokenBetween \in CompoundTokens THEN <<"=">> ELSE <<>>)
\* `x<<=y` has been given to Binary::apply: one mutant, `x>>=y`.
C28_Witness ==
    /\ Applied
    /\ source = <<"(", "x", "<", "<", "=", "y", ")">>
    /\ Len(binary_out) = 1
    /\ binary_out[1].mutated_source = <<"(", "x", ">", ">", "=", "y", ")">>


\* ---- Span merging ----
Bytes(spans) == UNION { spans[k][1]..(spans[k][2] - 1) : k \in 1..Len(spans) }

\* C27: for a non-empty list of spans sorted by start, merging completes
\* and yields sorted, pairwise separate spans that cover the bytes of every
\* input span and, beyond them, bridged whitespace only.
C27_MergeSpans ==
    u_pc # "new" =>
        /\ u_pc = "done"
        /\ \A k \in 1..(Len(optimized_spans) - 1) :
              optimized_spans[k][2] < optimized_spans[k + 1][1]
        /\ Bytes(uncovered_locations) \subseteq Bytes(optimized_spans)
        /\ \A b \in Bytes(optimized_spans) \ Bytes(uncovered_locations) :
              file_contents[b + 1] = " "


\* ---- Every mutant is recorded once ----
\* The places of a Report's diff lists that hold the diff d.
Occurrences(files, d) ==
    UNION { UNION { { <<p, k, field, j>> :
                        j \in { x \in 1..Len(files[p][k][field]) :
                                  files[p][k][field][x] = d } }
                    : k \in 1..Len(files[p]),
                      field \in {"mutants_alive_diffs", "mutants_killed_diff"} }
            : p \in DOMAIN files }

\* C29: in a run whose baseline passes, the Report's tested count is the
\* number of mutants, every mutant has exactly one diff, in the alive or the
\* killed list of its function according to its status, and every record
\* has killed <= tested, killed = number of killed diffs and tested = number
\* of alive diffs + number of killed diffs.
C29_RecordedOnce ==
    ReportBuilt =>
        /\ baseline = "passed"
        /\ mutants_tested(test_report) = N
        /\ \A i \in 1..N :
              \E o \in Occurrences(test_report, Elem(i)) :
                  /\ Occurrences(test_report, Elem(i)) = {o}
                  /\ o[1] = original_file(i)
                  /\ test_report[o[1]][o[2]].module_func = QName(Elem(i))
                  /\ o[3] = IF status[i] = "Alive" THEN "mutants_alive_diffs"
                                                   ELSE "mutants_killed_diff"
        /\ \A p \in DOMAIN test_report : \A k \in 1..Len(test_report[p]) :
              LET stat == test_report[p][k]
              IN /\ stat.killed <= stat.tested
                 /\ stat.killed = Len(stat.mutants_killed_diff)
                 /\ stat.tested = Len(stat.mutants_alive_diffs) + Len(stat.mutants_killed_diff)
C29_Witness ==
    /\ ReportBuilt
    /\ N = MaxMutants
    /\ \E i, j \in 1..N : status[i] = "Alive" /\ status[j] = "Killed"
    /\ \E p \in DOMAIN test_report : \E k \in 1..Len(test_report[p]) :
          test_report[p][k].tested >= 2 /\ test_report[p][k].killed = 1


\* ---- Report operations ----
CallsOf(op) == SelectSeq(calls, LAMBDA c : c.op = op)
CallsFor(p, mf, op) ==
    SelectSeq(calls, LAMBDA c : c.path = p /\ c.module_func = mf /\ c.op = op)
DiffsOf(cs) == [k \in 1..Len(cs) |-> cs[k].diff]
\* The functions of a file in the order of their first call.
RECURSIVE FirstTouch(_, _, _)
FirstTouch(cs, p, seen) ==
    IF cs = <<>> THEN <<>>
    ELSE IF Head(cs).path = p /\ Head(cs).module_func \notin seen
    THEN <<Head(cs).module_func>>
            \o FirstTouch(Tail(cs), p, seen \cup {Head(cs).module_func})
    ELSE FirstTouch(Tail(cs), p, seen)

\* C30: after any sequence of calls a Report holds exactly one record per
\* touched key, created on first touch; its counts are the numbers of the
\* increment calls for the key, its diff lists hold the added diffs in call
\* order, nothing else is recorded, and the totals are the sums.
C30_ReportOperations ==
    /\ DOMAIN test_report = {calls[k].path : k \in 1..Len(calls)}
    /\ \A p \in DOMAIN test_report :
          /\ [k \in 1..Len(test_report[p]) |-> test_report[p][k].module_func]
                = FirstTouch(calls, p, {})
          /\ \A k \in 1..Len(test_report[p]) :
                LET stat == test_report[p][k]
                    mf == stat.module_func
                IN /\ stat.tested = Len(CallsFor(p, mf, "increment_mutants_tested"))
                   /\ stat.killed = Len(CallsFor(p, mf, "increment_mutants_killed"))
                   /\ stat.mutants_alive_diffs
                        = DiffsOf(CallsFor(p, mf, "add_mutants_alive_diff"))
                   /\ stat.mutants_killed_diff
                        = DiffsOf(CallsFor(p, mf, "add_mutants_killed_diff"))
    /\ mutants_tested(test_report) = Len(CallsOf("increment_mutants_tested"))
    /\ mutants_killed(test_report) = Len(CallsOf("increment_mutants_killed"))
\* Two functions of one file, one of them touched twice.
C30_Witness ==
    /\ Len(calls) = 3
    /\ calls[1].op = "add_mutants_alive_diff"
    /\ calls[2].op = "increment_mutants_tested"
    /\ calls[3].op = "add_mutants_alive_diff"
    /\ calls[1].path = calls[2].path /\ calls[2].path = calls[3].path
    /\ calls[1].module_func # calls[2].module_func
    /\ calls[3].module_func = calls[1].module_func
    /\ calls[3].diff # calls[1].diff
    /\ Len(test_report[calls[1].path]) = 2

====
